---- MODULE Spec2Model ----
(***************************************************************************)
(* A model of the chunked-bytes buffer: the engine core `Inner`            *)
(* (src/src/chunked.rs) and its two wrappers, loosely::ChunkedBytes        *)
(* (src/src/loosely.rs) and strictly::ChunkedBytes (src/src/strictly.rs).  *)
(*                                                                         *)
(* Bytes are modelled by their write sequence number: the k-th byte ever   *)
(* written to the buffer has the value k, so the order of the bytes a      *)
(* reader sees can be compared with the order they were written in.        *)
(*                                                                         *)
(* The staging region is a `BytesMut`; its allocation behaviour is part of *)
(* what the code relies on (reserve_staging's comment spells it out), so   *)
(* the model keeps the fields of `BytesMut` that decide it: the capacity   *)
(* counted from the read position, the offset of the read position in a    *)
(* solely owned vector, whether the allocation is shared with `Bytes`      *)
(* handles, and the capacity of the shared vector.                         *)
(***************************************************************************)
EXTENDS Integers, Sequences, FiniteSets, TLC

\* ------------------------------------------------------------- bounds
\* Total number of bytes ever written (committed or ingested).
MaxBytes == 3
\* Configured chunk sizes range over 0..MaxChunkSize.
MaxChunkSize == 2
\* Longest range handed to put_bytes.
MaxPut == 3
\* Largest number of descriptors handed to gather.
MaxK == 2
\* Bytes a growing Vec may allocate beyond the amortized request.
MaxOver == 1

\* BytesMut::chunk_mut reserves this much when len == capacity.
ChunkMutReserve == 64

VARIABLES
    variant,      \* "loose" (loosely::ChunkedBytes) or "strict" (strictly::ChunkedBytes)
    chunk_size,   \* Inner.chunk_size
    staging,      \* Inner.staging, a BytesMut
    chunks,       \* Inner.chunks, a VecDeque<Bytes>
    cap,          \* strictly::ChunkedBytes.cap (0 and unused in the loose variant)
    view,         \* length of the writable view last returned and not yet committed, -1 if none
    written,      \* number of bytes written so far (history)
    readlog,      \* the bytes handed to the reader so far, in order (history)
    status,       \* "run", "panic" (an assertion failed), "hang" (a loop that never
                  \* exits) or "consumed" (into_chunks has taken the buffer)
    last          \* the last operation, its argument and the Bytes handle it returned

vars == <<variant, chunk_size, staging, chunks, cap, view, written, readlog, status, last>>

\* ------------------------------------------------------------- helpers
Min(a, b) == IF a < b THEN a ELSE b
Max(a, b) == IF a > b THEN a ELSE b

\* The n bytes written after `from` bytes have been written.
NewBytes(from, n) == [i \in 1..n |-> from + i]

RECURSIVE Flatten(_)
Flatten(ch) == IF ch = <<>> THEN <<>> ELSE Head(ch).data \o Flatten(Tail(ch))

RECURSIVE SumLen(_, _)
SumLen(ch, acc) == IF ch = <<>> THEN acc ELSE SumLen(Tail(ch), acc + Len(Head(ch).data))

Take(s, n) == SubSeq(s, 1, n)
Drop(s, n) == SubSeq(s, n + 1, Len(s))

\* ------------------------------------------------------------- BytesMut
\* BytesMut::new()
BytesMutNew == [data |-> <<>>, cap |-> 0, off |-> 0, kind |-> "vec", vcap |-> 0, held |-> FALSE]

\* A Bytes handle: the bytes it views and the storage it references:
\* "ext" (a range supplied by the caller, sid = its first byte), "cur" (the
\* allocation the staging region currently uses), "old" (an allocation the
\* staging region has left), "copy" (a fresh allocation filled by copying).
Chunk(data, store, sid) == [data |-> data, store |-> store, sid |-> sid]

\* BytesMut::advance(cnt): set_start(cnt).
BytesMutAdvance(s, cnt) ==
    [s EXCEPT !.data = Drop(@, cnt),
              !.cap = @ - cnt,
              !.off = IF s.kind = "vec" THEN @ + cnt ELSE @]

\* What is left in `self` after BytesMut::split_to(at): the allocation is
\* promoted to a shared one and the read position moves past `at`.
BytesMutSplitTo(s, at) ==
    [s EXCEPT !.data = Drop(@, at),
              !.cap = @ - at,
              !.off = 0,
              !.kind = "arc",
              !.vcap = IF s.kind = "vec" THEN s.cap + s.off ELSE @]

\* No live handle but the staging region's references its allocation: no
\* queued chunk does, and the caller has dropped every handle it was given
\* (`dropped`, the caller's choice, matters only if it was given one).
IsUnique(b, dropped) ==
    /\ \A i \in 1..Len(b.ch) : b.ch[i].store # "cur"
    /\ (b.st.held => dropped)

\* The chunks once the staging region has moved to a new allocation.
Relabel(ch) == [i \in 1..Len(ch) |->
                  IF ch[i].store = "cur" THEN [ch[i] EXCEPT !.store = "old"] ELSE ch[i]]

\* reserve that doubles the shared vector's capacity also when it cannot
\* reclaim it.
BytesMutReserve_GrowShared(b, additional, dropped, over) ==
    LET s == b.st
        len == Len(s.data)
        fresh(c) == [b EXCEPT !.st = [s EXCEPT !.cap = c, !.off = 0, !.kind = "vec",
                                               !.vcap = 0, !.held = FALSE],
                              !.ch = Relabel(b.ch)]
    IN  IF additional <= s.cap - len THEN b
        ELSE IF s.kind = "vec" THEN
            IF s.off >= additional /\ s.off >= s.cap \div 2
            THEN [b EXCEPT !.st = [s EXCEPT !.cap = s.cap + s.off, !.off = 0]]
            ELSE [b EXCEPT !.st = [s EXCEPT !.cap =
                     Max(2 * (s.cap + s.off), len + s.off + additional) + over - s.off]]
        ELSE IF IsUnique(b, dropped) /\ s.vcap >= len + additional
        THEN [b EXCEPT !.st = [s EXCEPT !.cap = s.vcap, !.held = FALSE]]
        ELSE fresh(Max(2 * s.vcap, len + additional))

\* reserve that never moves the bytes back to the start of a vector: it
\* always lets the vector grow.
BytesMutReserve_NoReuse(b, additional, dropped, over) ==
    LET s == b.st
        len == Len(s.data)
        fresh(c) == [b EXCEPT !.st = [s EXCEPT !.cap = c, !.off = 0, !.kind = "vec",
                                               !.vcap = 0, !.held = FALSE],
                              !.ch = Relabel(b.ch)]
    IN  IF additional <= s.cap - len THEN b
        ELSE IF s.kind = "vec" THEN
            [b EXCEPT !.st = [s EXCEPT !.cap =
                Max(2 * (s.cap + s.off), len + s.off + additional) + over - s.off]]
        ELSE IF IsUnique(b, dropped) THEN
            IF s.vcap >= len + additional
            THEN [b EXCEPT !.st = [s EXCEPT !.cap = s.vcap, !.held = FALSE]]
            ELSE fresh(Max(2 * s.vcap, len + additional))
        ELSE fresh(len + additional)

\* BytesMut::reserve(additional), on the buffer b = [st, ch].
BytesMutReserve(b, additional, dropped, over) ==
    LET s == b.st
        len == Len(s.data)
        fresh(c) == [b EXCEPT !.st = [s EXCEPT !.cap = c, !.off = 0, !.kind = "vec",
                                               !.vcap = 0, !.held = FALSE],
                              !.ch = Relabel(b.ch)]
    IN  IF additional <= s.cap - len THEN b
        ELSE IF s.kind = "vec" THEN
            IF s.off >= additional /\ s.off >= s.cap \div 2
            THEN \* reuse the allocation: move the bytes to its start
                 [b EXCEPT !.st = [s EXCEPT !.cap = s.cap + s.off, !.off = 0]]
            ELSE \* Vec::reserve: amortized growth, possibly more
                 [b EXCEPT !.st = [s EXCEPT !.cap =
                     Max(2 * (s.cap + s.off), len + s.off + additional) + over - s.off]]
        ELSE IF IsUnique(b, dropped) THEN
            IF s.vcap >= len + additional
            THEN \* reclaim the whole shared vector
                 [b EXCEPT !.st = [s EXCEPT !.cap = s.vcap, !.held = FALSE]]
            ELSE fresh(Max(2 * s.vcap, len + additional))
        ELSE fresh(len + additional)

\* ------------------------------------------------------------- Inner
Buf == [st |-> staging, ch |-> chunks]

\* Inner::push_chunk
push_chunk(b, chunk) == [b EXCEPT !.ch = Append(@, chunk)]

\* flush that splits staging off without testing that it holds bytes.
flush_Unconditional(b) ==
    push_chunk([b EXCEPT !.st = BytesMutSplitTo(b.st, Len(b.st.data))],
               Chunk(b.st.data, "cur", 0))

\* Inner::flush
flush(b) ==
    IF b.st.data # <<>>
    THEN push_chunk([b EXCEPT !.st = BytesMutSplitTo(b.st, Len(b.st.data))],
                    Chunk(b.st.data, "cur", 0))
    ELSE b

\* remaining() folding from 0: the staging bytes are not counted.
remaining_NoStaging(b) == SumLen(b.ch, 0)

\* Inner::remaining
remaining(b) == SumLen(b.ch, Len(b.st.data))

\* is_empty that looks at the queue alone.
is_empty_ChunksOnly(b) == b.ch = <<>>

\* Inner::is_empty
is_empty(b) == b.ch = <<>> /\ b.st.data = <<>>

\* Buf::has_remaining of either variant
has_remaining(b) == ~is_empty(b)

\* reserve_staging that never flushes: it asks for chunk_size more bytes with
\* the staged bytes still in place.
reserve_staging_NoFlush(b, dropped, over) ==
    LET c == b.st.cap
        cutoff == c + c \div 2
    IN  IF cutoff > chunk_size
        THEN BytesMutReserve(b, chunk_size, dropped, over)
        ELSE BytesMutReserve(b, chunk_size - c, dropped, over)

\* reserve_staging whose cutoff is the capacity alone, without the added half.
reserve_staging_NoHalf(b, dropped, over) ==
    LET c == b.st.cap
        cutoff == c
    IN  IF cutoff > chunk_size
        THEN BytesMutReserve(flush(b), chunk_size, dropped, over)
        ELSE BytesMutReserve(b, chunk_size - c, dropped, over)

\* reserve_staging that splits the staged bytes off in both cases.
reserve_staging_FlushAlways(b, dropped, over) ==
    LET c == b.st.cap
        cutoff == c + c \div 2
    IN  IF cutoff > chunk_size
        THEN BytesMutReserve(flush(b), chunk_size, dropped, over)
        ELSE BytesMutReserve(flush(b), chunk_size - c, dropped, over)

\* Inner::reserve_staging
reserve_staging(b, dropped, over) ==
    LET c == b.st.cap
        cutoff == c + c \div 2
    IN  IF cutoff > chunk_size
        THEN BytesMutReserve(flush(b), chunk_size, dropped, over)
        ELSE BytesMutReserve(b, chunk_size - c, dropped, over)

\* chunk_mut that returns the spare capacity as it is, be it empty.
chunk_mut_NoGrow(b, dropped, over) == b

\* Inner::chunk_mut: BytesMut::chunk_mut grows a full buffer before
\* returning its spare capacity. A call of bytes_mut makes at most one
\* reservation that allocates (reserve_staging leaves the buffer full only
\* when it asked for nothing), so one choice of `over` serves both.
chunk_mut(b, dropped, over) ==
    IF Len(b.st.data) = b.st.cap
    THEN BytesMutReserve(b, ChunkMutReserve, dropped, over)
    ELSE b

\* chunk() that prefers the staging bytes to the front chunk.
chunk_StagingFirst(b) ==
    IF b.st.data # <<>> THEN b.st.data
    ELSE IF b.ch # <<>> THEN Head(b.ch).data ELSE <<>>

\* Inner::chunk
chunk(b) == IF b.ch # <<>> THEN Head(b.ch).data ELSE b.st.data

\* chunks_vectored that adds the staging descriptor without testing
\* n < dst.len().
chunks_vectored_NoRoomCheck(b, k) ==
    LET n == Min(k, Len(b.ch))
        filled == [i \in 1..n |-> b.ch[i].data]
    IN  IF b.st.data # <<>> THEN Append(filled, b.st.data) ELSE filled

\* chunks_vectored that describes the queued chunks and never the staging
\* bytes.
chunks_vectored_NoStaging(b, k) ==
    LET n == Min(k, Len(b.ch))
    IN  [i \in 1..n |-> b.ch[i].data]

\* Inner::chunks_vectored with dst.len() = k: the descriptors filled.
chunks_vectored(b, k) ==
    LET n == Min(k, Len(b.ch))
        filled == [i \in 1..n |-> b.ch[i].data]
    IN  IF n < k /\ b.st.data # <<>> THEN Append(filled, b.st.data) ELSE filled

\* advance() that pops the chunks it passes but forgets chunk.advance(cnt)
\* on the chunk it stops in.
RECURSIVE advance_NoChunkAdvance(_, _)
advance_NoChunkAdvance(b, cnt) ==
    IF b.ch = <<>>
    THEN IF cnt <= Len(b.st.data)
         THEN [b |-> [b EXCEPT !.st = BytesMutAdvance(b.st, cnt)], ok |-> TRUE,
               stopped |-> "InStaging", adv |-> cnt, dropped |-> Take(b.st.data, cnt)]
         ELSE [b |-> b, ok |-> FALSE, stopped |-> "InStaging", adv |-> cnt,
               dropped |-> <<>>]
    ELSE LET front == Head(b.ch)
             len == Len(front.data)
         IN  IF cnt < len
             THEN [b |-> b, ok |-> TRUE, stopped |-> "InChunk", adv |-> 0,
                   dropped |-> Take(front.data, cnt)]
             ELSE LET r == advance_NoChunkAdvance([b EXCEPT !.ch = Tail(@)], cnt - len)
                  IN  [r EXCEPT !.dropped = front.data \o @]

\* advance() that clamps cnt to the staging length instead of failing.
RECURSIVE advance_Clamped(_, _)
advance_Clamped(b, cnt) ==
    IF b.ch = <<>>
    THEN LET m == Min(cnt, Len(b.st.data))
         IN  [b |-> [b EXCEPT !.st = BytesMutAdvance(b.st, m)], ok |-> TRUE,
              stopped |-> "InStaging", adv |-> m, dropped |-> Take(b.st.data, m)]
    ELSE LET front == Head(b.ch)
             len == Len(front.data)
         IN  IF cnt < len
             THEN [b |-> [b EXCEPT !.ch = <<[front EXCEPT !.data = Drop(@, cnt)]>>
                                             \o Tail(b.ch)],
                   ok |-> TRUE, stopped |-> "InChunk", adv |-> 0,
                   dropped |-> Take(front.data, cnt)]
             ELSE LET r == advance_Clamped([b EXCEPT !.ch = Tail(@)], cnt - len)
                  IN  [r EXCEPT !.dropped = front.data \o @]

\* advance() that tests cnt <= len: a chunk read to its end stays queued,
\* empty.
RECURSIVE advance_StopAtEnd(_, _)
advance_StopAtEnd(b, cnt) ==
    IF b.ch = <<>>
    THEN IF cnt <= Len(b.st.data)
         THEN [b |-> [b EXCEPT !.st = BytesMutAdvance(b.st, cnt)], ok |-> TRUE,
               stopped |-> "InStaging", adv |-> cnt, dropped |-> Take(b.st.data, cnt)]
         ELSE [b |-> b, ok |-> FALSE, stopped |-> "InStaging", adv |-> cnt,
               dropped |-> <<>>]
    ELSE LET front == Head(b.ch)
             len == Len(front.data)
         IN  IF cnt <= len
             THEN [b |-> [b EXCEPT !.ch = <<[front EXCEPT !.data = Drop(@, cnt)]>>
                                             \o Tail(b.ch)],
                   ok |-> TRUE, stopped |-> "InChunk", adv |-> 0,
                   dropped |-> Take(front.data, cnt)]
             ELSE LET r == advance_StopAtEnd([b EXCEPT !.ch = Tail(@)], cnt - len)
                  IN  [r EXCEPT !.dropped = front.data \o @]

\* advance with `cnt <= len` in place of `cnt < len`: a chunk read to its
\* end is advanced to empty and left at the front of the queue.
RECURSIVE advance_KeepEmptied(_, _)
advance_KeepEmptied(b, cnt) ==
    IF b.ch = <<>>
    THEN IF cnt <= Len(b.st.data)
         THEN [b |-> [b EXCEPT !.st = BytesMutAdvance(b.st, cnt)], ok |-> TRUE,
               stopped |-> "InStaging", adv |-> cnt, dropped |-> Take(b.st.data, cnt)]
         ELSE [b |-> b, ok |-> FALSE, stopped |-> "InStaging", adv |-> cnt,
               dropped |-> <<>>]
    ELSE LET front == Head(b.ch)
             len == Len(front.data)
         IN  IF cnt <= len
             THEN [b |-> [b EXCEPT !.ch = <<[front EXCEPT !.data = Drop(@, cnt)]>>
                                             \o Tail(b.ch)],
                   ok |-> TRUE, stopped |-> "InChunk", adv |-> 0,
                   dropped |-> Take(front.data, cnt)]
             ELSE LET r == advance_KeepEmptied([b EXCEPT !.ch = Tail(@)], cnt - len)
                  IN  [r EXCEPT !.dropped = front.data \o @]

\* Inner::advance. `ok` is FALSE when BytesMut::advance panics; `dropped`
\* lists the bytes the steps of the loop removed, in the order removed.
RECURSIVE advance(_, _)
advance(b, cnt) ==
    IF b.ch = <<>>
    THEN IF cnt <= Len(b.st.data)
         THEN [b |-> [b EXCEPT !.st = BytesMutAdvance(b.st, cnt)], ok |-> TRUE,
               stopped |-> "InStaging", adv |-> cnt, dropped |-> Take(b.st.data, cnt)]
         ELSE [b |-> b, ok |-> FALSE, stopped |-> "InStaging", adv |-> cnt,
               dropped |-> <<>>]
    ELSE LET front == Head(b.ch)
             len == Len(front.data)
         IN  IF cnt < len
             THEN [b |-> [b EXCEPT !.ch = <<[front EXCEPT !.data = Drop(@, cnt)]>>
                                             \o Tail(b.ch)],
                   ok |-> TRUE, stopped |-> "InChunk", adv |-> 0,
                   dropped |-> Take(front.data, cnt)]
             ELSE LET r == advance([b EXCEPT !.ch = Tail(@)], cnt - len)
                  IN  [r EXCEPT !.dropped = front.data \o @]

\* ------------------------------------------------------------- state machine
\* The Bytes handle recorded for an operation that returns none.
NoBytes == Chunk(<<>>, "none", 0)

\* The operation last called: its name, its argument (the length of the
\* range given to put_bytes, the count given to advance) and the Bytes
\* handle it returned (copy_to_bytes, to_bytes); `out` is for iterators.
Op(name, n) == [op |-> name, n |-> n, ret |-> NoBytes, out |-> <<>>]
OpRet(name, r) == [op |-> name, n |-> 0, ret |-> r, out |-> <<>>]

\* An iterator the caller took j elements of: `out` lists them as yielded.
OpOut(name, j, elems) == [op |-> name, n |-> j, ret |-> NoBytes, out |-> elems]

Init ==
    /\ variant \in {"loose", "strict"}
    /\ chunk_size \in 0..MaxChunkSize
    /\ staging = BytesMutNew
    /\ chunks = <<>>
    /\ cap = 0
    /\ view = -1
    /\ written = 0
    /\ readlog = <<>>
    /\ status = "run"
    /\ last = Op("new", 0)

\* bytes_mut that runs the reservation step whether or not staging is full.
LooseBytesMut_AlwaysReserve(b, dropped, over) ==
    LET b1 == reserve_staging(b, dropped, over)
        b2 == chunk_mut(b1, dropped, over)
    IN  [b |-> b2, cap |-> 0, view |-> b2.st.cap - Len(b2.st.data)]

\* loosely::ChunkedBytes::bytes_mut and strictly::ChunkedBytes::bytes_mut
LooseBytesMut(b, dropped, over) ==
    LET b1 == IF Len(b.st.data) = b.st.cap THEN reserve_staging(b, dropped, over) ELSE b
        b2 == chunk_mut(b1, dropped, over)
    IN  [b |-> b2, cap |-> 0, view |-> b2.st.cap - Len(b2.st.data)]

\* bytes_mut that takes the new capacity as cap without clamping it to the
\* chunk size limit.
StrictBytesMut_NoClamp(b, c, dropped, over) ==
    LET full == Len(b.st.data) = c
        b1 == IF full THEN reserve_staging(b, dropped, over) ELSE b
        c1 == IF full THEN b1.st.cap ELSE c
        b2 == chunk_mut(b1, dropped, over)
    IN  [b |-> b2, cap |-> c1, view |-> Min(b2.st.cap - Len(b2.st.data), c1)]

StrictBytesMut(b, c, dropped, over) ==
    LET full == Len(b.st.data) = c
        b1 == IF full THEN reserve_staging(b, dropped, over) ELSE b
        c1 == IF full THEN Min(b1.st.cap, chunk_size) ELSE c
        b2 == chunk_mut(b1, dropped, over)
    IN  [b |-> b2, cap |-> c1, view |-> Min(b2.st.cap - Len(b2.st.data), c1)]

\* writable_view(), with the allocator's surplus drawn from `overs`.
WritableViewWith(overs) ==
    /\ status = "run"
    /\ \E dropped \in (IF staging.held THEN BOOLEAN ELSE {TRUE}), over \in overs :
         LET r == IF variant = "loose"
                  THEN LooseBytesMut(Buf, dropped, over)
                  ELSE StrictBytesMut(Buf, cap, dropped, over)
         IN  /\ staging' = r.b.st
             /\ chunks' = r.b.ch
             /\ cap' = r.cap
             /\ view' = r.view
             /\ last' = Op("bytes_mut", 0)
    /\ UNCHANGED <<variant, chunk_size, written, readlog, status>>

WritableView == WritableViewWith(0..MaxOver)

\* Inner::advance_mut: BytesMut::advance_mut moves the write cursor over the
\* cnt bytes the caller has put in the view; they are the next bytes written.
inner_advance_mut(b, cnt, from) == [b EXCEPT !.st.data = @ \o NewBytes(from, cnt)]

\* advance_mut that flushes once the staging length reaches chunk_size.
LooseAdvanceMut_AutoFlush(b, cnt, from) ==
    LET b1 == inner_advance_mut(b, cnt, from)
    IN  [b |-> IF Len(b1.st.data) >= chunk_size THEN flush(b1) ELSE b1, ok |-> TRUE]

\* loosely::ChunkedBytes::advance_mut
LooseAdvanceMut(b, cnt, from) ==
    [b |-> inner_advance_mut(b, cnt, from), ok |-> TRUE]

\* strictly::ChunkedBytes::advance_mut
StrictAdvanceMut(b, c, cnt, from) ==
    IF Len(b.st.data) + cnt <= c
    THEN [b |-> inner_advance_mut(b, cnt, from), ok |-> TRUE]
    ELSE [b |-> b, ok |-> FALSE]

\* commit(n), by a caller that keeps to the length of the view it was given.
CommitStep(n) ==
    /\ status = "run"
    /\ view >= 0
    /\ n <= view
    /\ LET r == IF variant = "loose"
                THEN LooseAdvanceMut(Buf, n, written)
                ELSE StrictAdvanceMut(Buf, cap, n, written)
       IN  /\ staging' = r.b.st
           /\ chunks' = r.b.ch
           /\ status' = IF r.ok THEN "run" ELSE "panic"
           /\ written' = IF r.ok THEN written + n ELSE written
    /\ view' = -1
    /\ last' = Op("advance_mut", 0)
    /\ UNCHANGED <<variant, chunk_size, cap, readlog>>

Commit(n) == written + n <= MaxBytes /\ CommitStep(n)

\* The debug assertion of strictly::ChunkedBytes::flush, into_chunks and
\* bytes_vectored.
StagingWithinLimit(b) == Len(b.st.data) <= chunk_size

\* loosely::ChunkedBytes::flush and strictly::ChunkedBytes::flush
Flush ==
    /\ status = "run"
    /\ IF variant = "strict" /\ ~StagingWithinLimit(Buf)
       THEN /\ status' = "panic"
            /\ UNCHANGED <<staging, chunks>>
       ELSE /\ status' = "run"
            /\ staging' = flush(Buf).st
            /\ chunks' = flush(Buf).ch
    /\ view' = -1
    /\ last' = Op("flush", 0)
    /\ UNCHANGED <<variant, chunk_size, cap, written, readlog>>

\* put_bytes that appends the range without flushing the staging bytes.
LoosePutBytes_NoFlush(b, src) ==
    IF src.data # <<>> THEN push_chunk(b, src) ELSE b

\* put_bytes that flushes before it looks at the range.
LoosePutBytes_FlushFirst(b, src) ==
    IF src.data # <<>> THEN push_chunk(flush(b), src) ELSE flush(b)

\* put_bytes that cuts the range at chunk_size, as the strict variant does.
LoosePutBytes_Split(b, src) ==
    IF src.data = <<>> THEN b
    ELSE IF chunk_size >= 1 /\ Len(src.data) > chunk_size
    THEN push_chunk(push_chunk(flush(b), [src EXCEPT !.data = Take(@, chunk_size)]),
                    [src EXCEPT !.data = Drop(@, chunk_size)])
    ELSE push_chunk(flush(b), src)

\* loosely::ChunkedBytes::put_bytes
LoosePutBytes(b, src) ==
    IF src.data # <<>> THEN push_chunk(flush(b), src) ELSE b

\* put_bytes that queues the range whole, as the loose variant does.
SplitLoop_NoSplit(b, src) == push_chunk(b, src)

\* The loop with `while src.len() >= chunk_size`: a range that ends on a
\* multiple of chunk_size is followed by an empty last chunk.
RECURSIVE SplitLoop_SplitAtEqual(_, _)
SplitLoop_SplitAtEqual(b, src) ==
    IF Len(src.data) >= chunk_size
    THEN SplitLoop_SplitAtEqual(push_chunk(b, [src EXCEPT !.data = Take(@, chunk_size)]),
                                [src EXCEPT !.data = Drop(@, chunk_size)])
    ELSE push_chunk(b, src)

\* The loop of strictly::ChunkedBytes::put_bytes, for chunk_size >= 1.
RECURSIVE SplitLoop(_, _)
SplitLoop(b, src) ==
    IF Len(src.data) > chunk_size
    THEN SplitLoop(push_chunk(b, [src EXCEPT !.data = Take(@, chunk_size)]),
                   [src EXCEPT !.data = Drop(@, chunk_size)])
    ELSE push_chunk(b, src)

\* strictly::ChunkedBytes::put_bytes. With chunk_size = 0 every split_to(0)
\* is empty and src never shrinks: a build with debug assertions panics in
\* the first push_chunk, a build without them pushes empty chunks for ever
\* (the state after the first iteration stands for the loop).
StrictPutBytes(b, src, debug) ==
    IF src.data = <<>> THEN [b |-> b, status |-> "run"]
    ELSE IF chunk_size = 0
    THEN IF debug
         THEN [b |-> flush(b), status |-> "panic"]
         ELSE [b |-> push_chunk(flush(b), [src EXCEPT !.data = <<>>]), status |-> "hang"]
    ELSE [b |-> SplitLoop(flush(b), src), status |-> "run"]

PutBytes(n) ==
    /\ status = "run"
    /\ written + n <= MaxBytes
    /\ \E debug \in BOOLEAN :
         LET src == Chunk(NewBytes(written, n), "ext", written + 1)
             r == IF variant = "loose"
                  THEN [b |-> LoosePutBytes(Buf, src), status |-> "run"]
                  ELSE StrictPutBytes(Buf, src, debug)
         IN  /\ staging' = r.b.st
             /\ chunks' = r.b.ch
             /\ status' = r.status
             /\ written' = IF r.status = "run" THEN written + n ELSE written
    /\ view' = -1
    /\ last' = Op("put_bytes", n)
    /\ UNCHANGED <<variant, chunk_size, cap, readlog>>

\* advance that takes the whole count off cap, the bytes of the popped
\* chunks included.
StrictCapAfter_WholeCount(c, r) ==
    IF r.stopped = "InStaging" THEN c - Len(r.dropped) ELSE c

\* strictly::ChunkedBytes::advance: cap follows the staging read position.
StrictCapAfter(c, r) == IF r.stopped = "InStaging" THEN c - r.adv ELSE c

\* The state after advance(cnt), common to the read actions.
AdvanceTo(cnt, seen) ==
    LET r == advance(Buf, cnt)
    IN  /\ staging' = r.b.st
        /\ chunks' = r.b.ch
        /\ status' = IF r.ok THEN "run" ELSE "panic"
        /\ cap' = IF variant = "strict" /\ r.ok THEN StrictCapAfter(cap, r) ELSE cap
        /\ readlog' = readlog \o seen
        /\ view' = -1

\* advance(cnt), also beyond remaining(): the bytes the loop removes are
\* taken as read.
Advance(cnt) ==
    /\ status = "run"
    /\ cnt <= remaining(Buf) + 1
    /\ AdvanceTo(cnt, advance(Buf, cnt).dropped)
    /\ last' = Op("advance", cnt)
    /\ UNCHANGED <<variant, chunk_size, written>>

\* front_slice(), an output that accepts n of its bytes, advance(n).
ReadFront(n) ==
    /\ status = "run"
    /\ n <= Len(chunk(Buf))
    /\ AdvanceTo(n, Take(chunk(Buf), n))
    /\ last' = Op("bytes", 0)
    /\ UNCHANGED <<variant, chunk_size, written>>

RECURSIVE Concat(_)
Concat(ss) == IF ss = <<>> THEN <<>> ELSE Head(ss) \o Concat(Tail(ss))

\* gather with k descriptors, an output that accepts n of the gathered
\* bytes, advance(n): write_vectored of the crate's example.
ReadGather(k, n) ==
    /\ status = "run"
    /\ n <= Len(Concat(chunks_vectored(Buf, k)))
    /\ IF variant = "strict" /\ ~StagingWithinLimit(Buf)
       THEN /\ status' = "panic"
            /\ UNCHANGED <<staging, chunks, cap, readlog, view>>
       ELSE AdvanceTo(n, Take(Concat(chunks_vectored(Buf, k)), n))
    /\ last' = Op("bytes_vectored", 0)
    /\ UNCHANGED <<variant, chunk_size, written>>

\* bytes_vectored that flushes the staging bytes to hand them out as a chunk.
bytes_vectored_Flushing(b, k) ==
    [b |-> flush(b), ret |-> chunks_vectored(flush(b), k)]

\* ChunkedBytes::bytes_vectored of either variant: it borrows the buffer
\* (&self) and hands dst to Inner::chunks_vectored.
bytes_vectored(b, k) == [b |-> b, ret |-> chunks_vectored(b, k)]

\* The reads of an I/O attempt that is abandoned before advance:
\* has_remaining(), remaining(), front_slice() and gather with k
\* descriptors, all on a shared borrow of the buffer.
Peek(k) ==
    /\ status = "run"
    /\ LET e == is_empty(Buf)
           n == remaining(Buf)
           s == chunk(Buf)
           r == bytes_vectored(Buf, k)
       IN  IF variant = "strict" /\ ~StagingWithinLimit(Buf)
           THEN /\ status' = "panic"
                /\ UNCHANGED <<staging, chunks>>
           ELSE /\ status' = "run"
                /\ staging' = r.b.st
                /\ chunks' = r.b.ch
    /\ view' = -1
    /\ last' = Op("peek", 0)
    /\ UNCHANGED <<variant, chunk_size, cap, written, readlog>>

\* The loop of Inner::copy_to_bytes.
RECURSIVE CopyLoop(_, _)
CopyLoop(b, to_copy) ==
    IF b.ch = <<>>
    THEN LET m == Min(to_copy, Len(b.st.data))
         IN  [b |-> [b EXCEPT !.st = BytesMutAdvance(b.st, m)], out |-> Take(b.st.data, m)]
    ELSE LET front == Head(b.ch)
         IN  IF Len(front.data) > to_copy
             THEN [b |-> [b EXCEPT !.ch = <<[front EXCEPT !.data = Drop(@, to_copy)]>>
                                             \o Tail(b.ch)],
                   out |-> Take(front.data, to_copy)]
             ELSE LET r == CopyLoop([b EXCEPT !.ch = Tail(@)], to_copy - Len(front.data))
                  IN  [r EXCEPT !.out = front.data \o @]

\* Inner::copy_to_bytes(len). With no chunk queued it is
\* BytesMut::copy_to_bytes, split_to(len).freeze(), which asserts that
\* len <= staging.len() and hands out a handle to the staging allocation.
copy_to_bytes(b, len) ==
    IF b.ch = <<>>
    THEN IF len <= Len(b.st.data)
         THEN [b |-> [b EXCEPT !.st = [BytesMutSplitTo(b.st, len) EXCEPT !.held = TRUE]],
               ok |-> TRUE, ret |-> Chunk(Take(b.st.data, len), "cur", 0)]
         ELSE [b |-> b, ok |-> FALSE, ret |-> Chunk(<<>>, "copy", 0)]
    ELSE LET r == CopyLoop(b, Min(len, remaining(b)))
         IN  [b |-> r.b, ok |-> TRUE, ret |-> Chunk(r.out, "copy", 0)]

\* extract(len)
Extract(len) ==
    /\ status = "run"
    /\ len <= remaining(Buf) + 1
    /\ LET r == copy_to_bytes(Buf, len)
       IN  /\ staging' = r.b.st
           /\ chunks' = r.b.ch
           /\ status' = IF r.ok THEN "run" ELSE "panic"
           /\ readlog' = readlog \o r.ret.data
           /\ last' = IF r.ok THEN OpRet("copy_to_bytes", r.ret) ELSE Op("copy_to_bytes", 0)
    /\ view' = -1
    /\ UNCHANGED <<variant, chunk_size, cap, written>>

\* to_bytes that always gathers the bytes into a fresh allocation.
take_bytes_AlwaysCopy(b) ==
    [b |-> [st |-> BytesMutSplitTo(b.st, Len(b.st.data)), ch |-> <<>>],
     ret |-> Chunk(Flatten(b.ch) \o b.st.data, "copy", 0)]

\* Inner::take_bytes, the body of to_bytes: with no chunk queued the staging
\* bytes are split off and frozen; a chunk that is all there is, is
\* returned as it is; otherwise the chunks and the staging bytes are copied
\* into one new allocation. The handle returned may reference the staging
\* allocation.
take_bytes(b) ==
    IF b.ch = <<>>
    THEN [b |-> [b EXCEPT !.st = [BytesMutSplitTo(b.st, Len(b.st.data))
                                     EXCEPT !.held = TRUE]],
          ret |-> Chunk(b.st.data, "cur", 0)]
    ELSE LET front == Head(b.ch)
             rest == [b EXCEPT !.ch = Tail(@)]
         IN  IF is_empty(rest)
             THEN [b |-> [rest EXCEPT !.st.held = @ \/ front.store = "cur"],
                   ret |-> front]
             ELSE [b |-> [st |-> BytesMutSplitTo(b.st, Len(b.st.data)), ch |-> <<>>],
                   ret |-> Chunk(Flatten(b.ch) \o b.st.data, "copy", 0)]

\* take_all(): to_bytes of either variant; the strict cap is not touched.
TakeAll ==
    /\ status = "run"
    /\ LET r == take_bytes(Buf)
       IN  /\ staging' = r.b.st
           /\ chunks' = r.b.ch
           /\ readlog' = readlog \o r.ret.data
           /\ last' = OpRet("to_bytes", r.ret)
    /\ view' = -1
    /\ UNCHANGED <<variant, chunk_size, cap, written, status>>

\* The elements j calls of next() yield from a queue: vec_deque::Drain's
\* and IntoIter's next() pops the front.
RECURSIVE IterNext(_, _)
IterNext(q, j) ==
    IF j = 0 \/ q = <<>> THEN <<>> ELSE <<Head(q)>> \o IterNext(Tail(q), j - 1)

\* A draining iterator that removes only the chunks it has yielded.
drain_chunks_LazyDrop(b, j) ==
    [b |-> [b EXCEPT !.ch = SubSeq(@, Len(IterNext(b.ch, j)) + 1, Len(@)),
                     !.st.held = @ \/ (\E i \in 1..Len(b.ch) : b.ch[i].store = "cur")],
     out |-> IterNext(b.ch, j)]

\* Inner::drain_chunks with a caller that calls next() j times and drops
\* the DrainChunks: self.chunks.drain(..) takes the whole queue, and the
\* drop of vec_deque::Drain removes what was not yielded. The caller may
\* keep the handles it was given.
drain_chunks(b, j) ==
    [b |-> [b EXCEPT !.ch = <<>>,
                     !.st.held = @ \/ (\E i \in 1..Len(b.ch) : b.ch[i].store = "cur")],
     out |-> IterNext(b.ch, j)]

\* drain(): the bytes of every chunk removed, yielded or not, have left
\* the buffer.
DrainChunks ==
    /\ status = "run"
    /\ \E j \in 0..Len(chunks) :
         LET r == drain_chunks(Buf, j)
         IN  /\ staging' = r.b.st
             /\ chunks' = r.b.ch
             /\ last' = OpOut("drain_chunks", j, r.out)
    /\ readlog' = readlog \o Flatten(chunks)
    /\ view' = -1
    /\ UNCHANGED <<variant, chunk_size, cap, written, status>>

\* into_chunks that queues the frozen staging region without testing that
\* it holds bytes.
into_chunks_AlwaysPush(b) ==
    [st |-> BytesMutNew, ch |-> Append(b.ch, Chunk(b.st.data, "cur", 0))]

\* Inner::into_chunks: the staging bytes, if any, become the last element.
into_chunks(b) ==
    IF b.st.data # <<>>
    THEN [st |-> BytesMutNew, ch |-> Append(b.ch, Chunk(b.st.data, "cur", 0))]
    ELSE [st |-> BytesMutNew, ch |-> b.ch]

\* into_chunks(): the buffer is consumed; `chunks` then holds the elements
\* of the IntoChunks iterator.
IntoChunks ==
    /\ status = "run"
    /\ IF variant = "strict" /\ ~StagingWithinLimit(Buf)
       THEN /\ status' = "panic"
            /\ UNCHANGED <<staging, chunks>>
       ELSE /\ status' = "consumed"
            /\ staging' = into_chunks(Buf).st
            /\ chunks' = into_chunks(Buf).ch
    /\ view' = -1
    /\ last' = Op("into_chunks", 0)
    /\ UNCHANGED <<variant, chunk_size, cap, written, readlog>>

Next ==
    \/ WritableView
    \/ \E n \in 0..MaxBytes : Commit(n)
    \/ Flush
    \/ \E n \in 0..MaxPut : PutBytes(n)
    \/ \E cnt \in 0..MaxBytes + 1 : Advance(cnt)
    \/ \E n \in 1..MaxBytes : ReadFront(n)
    \/ \E k \in 1..MaxK, n \in 1..MaxBytes : ReadGather(k, n)
    \/ \E k \in 0..MaxK : Peek(k)
    \/ \E len \in 0..MaxBytes + 1 : Extract(len)
    \/ TakeAll
    \/ DrainChunks
    \/ IntoChunks

Spec == Init /\ [][Next]_vars

\* ------------------------------------------------------------- the test
\* The test reserve_does_not_grow_staging_buffer, for both variants, with
\* its first block repeated ScenCycles times: a writer that puts the bytes
\* of each block in pieces of any length, the reads and the drains of the
\* test. Vec<u8> allocates exactly the capacity its growth policy computes,
\* so the first view is ScenChunkSize long and is the test's `cap`.
ScenChunkSize == 8
ScenCycles == 2
ScenLessA == 4
ScenLessB == 6
ScenLessC == 5

\* The bytes written by the repeated first block, and the script position
\* given by the bytes that have left the buffer.
ScenFill == ScenCycles * ScenChunkSize
ScenRead == Len(readlog)
ScenSecond == ScenFill + ScenChunkSize

\* The number of bytes written at which the current put ends.
ScenWriteStop ==
    IF ScenRead < ScenFill THEN ScenRead + ScenChunkSize
    ELSE IF ScenRead = ScenFill THEN ScenFill + (ScenChunkSize - ScenLessA)
    ELSE IF ScenRead < ScenSecond THEN ScenSecond
    ELSE IF ScenRead = ScenSecond THEN ScenSecond + (ScenChunkSize - ScenLessC)
    ELSE ScenSecond + ScenChunkSize

ScenInit ==
    /\ variant \in {"loose", "strict"}
    /\ chunk_size = ScenChunkSize
    /\ staging = BytesMutNew
    /\ chunks = <<>>
    /\ cap = 0
    /\ view = -1
    /\ written = 0
    /\ readlog = <<>>
    /\ status = "run"
    /\ last = Op("new", 0)

\* buf.bytes_mut(), in put_slice and in the assertions
ScenView == WritableViewWith({0})

\* a piece of buf.put(..): n bytes copied into the view and committed
ScenCommit(n) ==
    /\ written + n <= ScenWriteStop
    /\ CommitStep(n)

\* buf.advance(cap - 6) and buf.advance(cap - 5), after the first put of
\* their blocks
ScenAdvance ==
    /\ written = ScenWriteStop
    /\ \/ ScenRead = ScenFill /\ Advance(ScenChunkSize - ScenLessB)
       \/ ScenRead = ScenSecond /\ Advance(ScenChunkSize - ScenLessC)

\* buf.drain_chunks(), after the bytes_mut() at the end of a block
ScenDrain ==
    /\ written = ScenWriteStop
    /\ ScenRead \notin {ScenFill, ScenSecond}
    /\ last.op = "bytes_mut"
    /\ DrainChunks

ScenNext ==
    \/ ScenView
    \/ \E n \in 1..ScenChunkSize : ScenCommit(n)
    \/ ScenAdvance
    \/ ScenDrain

ScenSpec == ScenInit /\ [][ScenNext]_vars

\* ------------------------------------------------------------- word width
\* The length computations on a native word of WordBits bits. A plain `+`
\* on usize panics on overflow in a build with overflow checks (the debug
\* profile) and wraps in a build without them (the release profile).
WordBits == 3
\* The most chunks queued before the writer stops.
WordMaxChunks == 3

\* usize::MAX + 1, usize::MAX, and isize::MAX (the longest slice there is).
WordMod == 2 ^ WordBits
WordMax == WordMod - 1
IsizeMax == WordMod \div 2 - 1

\* a + b on usize
add_usize(a, b, checked) ==
    IF a + b <= WordMax THEN [ok |-> TRUE, val |-> a + b]
    ELSE IF checked THEN [ok |-> FALSE, val |-> 0]
    ELSE [ok |-> TRUE, val |-> (a + b) % WordMod]

\* usize::saturating_add
saturating_add(a, b) == Min(a + b, WordMax)

\* Inner::remaining as it is computed: a fold of `sum + chunk.len()` that
\* starts from the staging length.
RECURSIVE remaining_usize(_, _, _)
remaining_usize(ch, acc, checked) ==
    IF ch = <<>> THEN [ok |-> TRUE, val |-> acc]
    ELSE LET r == add_usize(acc, Len(Head(ch).data), checked)
         IN  IF r.ok THEN remaining_usize(Tail(ch), r.val, checked) ELSE r

WordInit ==
    /\ variant \in {"loose", "strict"}
    /\ chunk_size = IsizeMax
    /\ staging = BytesMutNew
    /\ chunks = <<>>
    /\ cap = 0
    /\ view = -1
    /\ written = 0
    /\ readlog = <<>>
    /\ status = "run"
    /\ last = Op("new", 0)

\* put_bytes(shared.slice(..n)): every range is a view of the one allocation
\* the caller holds, so the chunk lengths add up past the size of memory.
WordPut(n) ==
    /\ status = "run"
    /\ Len(chunks) < WordMaxChunks
    /\ LET src == Chunk(NewBytes(0, n), "ext", 1)
           r == IF variant = "loose"
                THEN [b |-> LoosePutBytes(Buf, src), status |-> "run"]
                ELSE StrictPutBytes(Buf, src, FALSE)
       IN  /\ staging' = r.b.st
           /\ chunks' = r.b.ch
           /\ status' = r.status
    /\ written' = written + n
    /\ view' = -1
    /\ last' = Op("put_bytes", n)
    /\ UNCHANGED <<variant, chunk_size, cap, readlog>>

\* bytes_mut; a reservation beyond isize::MAX bytes aborts in the allocator
\* and leaves no state behind.
WordView ==
    /\ Len(chunks) < WordMaxChunks
    /\ WritableViewWith({0})
    /\ staging'.cap <= IsizeMax

\* advance_mut(cnt) for any cnt: the strict variant's assertion on
\* staging_len + cnt, then BytesMut::advance_mut, which computes the same
\* sum, asserts it against the capacity and stores it as the new length.
WordCommit(cnt) ==
    /\ status = "run"
    /\ written <= WordMax
    /\ \E checked \in BOOLEAN :
         LET len == Len(staging.data)
             sum == add_usize(len, cnt, checked)
             ok == /\ sum.ok
                   /\ variant = "strict" => sum.val <= cap
                   /\ sum.val <= staging.cap
         IN  /\ status' = IF ok THEN "run" ELSE "panic"
             /\ staging' = IF ~ok THEN staging
                           ELSE IF sum.val >= len
                           THEN [staging EXCEPT !.data = @ \o NewBytes(written, cnt)]
                           ELSE [staging EXCEPT !.data = Take(@, sum.val)]
             /\ written' = IF ok /\ sum.val >= len THEN written + cnt ELSE written
             /\ last' = IF ok THEN OpOut("advance_mut", cnt, <<len, sum.val>>)
                        ELSE Op("advance_mut", cnt)
    /\ view' = -1
    /\ UNCHANGED <<variant, chunk_size, chunks, cap, readlog>>

\* Buf::remaining
WordRemaining ==
    /\ status = "run"
    /\ \E checked \in BOOLEAN :
         LET r == remaining_usize(chunks, Len(staging.data), checked)
         IN  /\ status' = IF r.ok THEN "run" ELSE "panic"
             /\ last' = IF r.ok THEN OpOut("remaining", 0, <<r.val>>)
                        ELSE Op("remaining", 0)
    /\ view' = -1
    /\ UNCHANGED <<variant, chunk_size, staging, chunks, cap, written, readlog>>

WordNext ==
    \/ \E n \in 1..IsizeMax : WordPut(n)
    \/ WordView
    \/ \E cnt \in 0..WordMax : WordCommit(cnt)
    \/ WordRemaining

WordSpec == WordInit /\ [][WordNext]_vars

\* ------------------------------------------------------------- producer loop
\* The loop of produce(): while bytes are left, take the writable view, fill
\* min(bytes left, view length) of it and commit. The view borrows the
\* buffer, so the other operations come between the rounds, not inside one.
ProdInit == Init /\ chunk_size >= 1

ProdView == view = -1 /\ written < MaxBytes /\ WritableView

ProdCommit == view >= 0 /\ Commit(Min(MaxBytes - written, view))

ProdStep == ProdView \/ ProdCommit

ProdOther ==
    /\ view = -1
    /\ \/ Flush
       \/ \E n \in 0..MaxPut : PutBytes(n)
       \/ \E cnt \in 0..MaxBytes + 1 : Advance(cnt)
       \/ \E k \in 0..MaxK : Peek(k)
       \/ \E len \in 0..MaxBytes + 1 : Extract(len)
       \/ TakeAll
       \/ DrainChunks

ProdNext == ProdStep \/ ProdOther

\* The producer is not held up for ever: it runs its loop.
ProdSpec == ProdInit /\ [][ProdNext]_vars /\ WF_vars(ProdStep)

\* ------------------------------------------------------------- drain loop
\* An output driver: once the writer has stopped, it calls gather with
\* K >= 1 descriptors, the output accepts n >= 1 of the gathered bytes, and
\* it calls advance(n); it goes on for as long as gather finds bytes.
DrainStarted == last.op = "bytes_vectored"

DrainFill ==
    /\ ~DrainStarted
    /\ \/ WritableView
       \/ \E n \in 0..MaxBytes : Commit(n)
       \/ Flush
       \/ \E n \in 0..MaxPut : PutBytes(n)

DrainStep == \E k \in 1..MaxK, n \in 1..MaxBytes : ReadGather(k, n)

DrainNext == DrainFill \/ DrainStep

\* The driver is run again for as long as it has something to write.
DrainSpec == Init /\ [][DrainNext]_vars /\ WF_vars(DrainStep)

\* ------------------------------------------------------------- fmt::Write
\* BufMut::remaining_mut of either variant: BytesMut::remaining_mut, the
\* room left below usize::MAX, whatever the capacity.
remaining_mut(b) == WordMax - Len(b.st.data)

\* BufMut::put_slice over the variant's bytes_mut and advance_mut: while
\* bytes are left, take the view, copy min(view length, bytes left) and
\* commit them. `ok` is FALSE when advance_mut panics, with the bytes
\* committed before it in place; `hang` when a view is empty and the loop
\* makes no progress.
RECURSIVE put_slice(_, _, _, _, _, _)
put_slice(b, c, left, from, dropped, over) ==
    IF left = 0 THEN [b |-> b, cap |-> c, ok |-> TRUE, hang |-> FALSE, next |-> from]
    ELSE LET v == IF variant = "loose" THEN LooseBytesMut(b, dropped, over)
                  ELSE StrictBytesMut(b, c, dropped, over)
             c1 == IF variant = "loose" THEN c ELSE v.cap
             cnt == Min(v.view, left)
             a == IF variant = "loose" THEN LooseAdvanceMut(v.b, cnt, from)
                  ELSE StrictAdvanceMut(v.b, c1, cnt, from)
         IN  IF cnt = 0
             THEN [b |-> v.b, cap |-> c1, ok |-> TRUE, hang |-> TRUE, next |-> from]
             ELSE IF ~a.ok
             THEN [b |-> v.b, cap |-> c1, ok |-> FALSE, hang |-> FALSE, next |-> from]
             ELSE put_slice(a.b, c1, left - cnt, from + cnt, dropped, over)

\* fmt::Write::write_str(s) of either variant, s of n bytes.
WriteStr(n) ==
    /\ status = "run"
    /\ written + n <= MaxBytes
    /\ IF remaining_mut(Buf) >= n
       THEN \E dropped \in (IF staging.held THEN BOOLEAN ELSE {TRUE}), over \in 0..MaxOver :
              LET r == put_slice(Buf, cap, n, written, dropped, over)
              IN  /\ staging' = r.b.st
                  /\ chunks' = r.b.ch
                  /\ cap' = r.cap
                  /\ written' = r.next
                  /\ status' = IF r.hang THEN "hang" ELSE IF r.ok THEN "run" ELSE "panic"
                  /\ last' = Op("write_str", n)
       ELSE /\ UNCHANGED <<staging, chunks, cap, written, status>>
            /\ last' = Op("write_str_err", n)
    /\ view' = -1
    /\ UNCHANGED <<variant, chunk_size, readlog>>

FmtNext ==
    \/ \E n \in 0..MaxBytes : WriteStr(n)
    \/ Flush
    \/ \E cnt \in 0..MaxBytes : Advance(cnt)
    \/ DrainChunks

FmtSpec == Init /\ [][FmtNext]_vars

\* ------------------------------------------------------------- cutoff
\* The arithmetic of reserve_staging at word width, over every capacity
\* and every chunk size a word can hold.

\* usize `a - b`: ok is FALSE where the subtraction underflows (a panic in
\* a build with overflow checks, the wrapped value without).
sub_usize(a, b) == [ok |-> a >= b, val |-> (a - b + WordMod) % WordMod]

additional_Wrapping(c, size) ==
    LET cutoff == (c + c \div 2) % WordMod
    IN  IF cutoff > size
        THEN [flush |-> TRUE, ok |-> TRUE, val |-> size]
        ELSE [flush |-> FALSE, ok |-> sub_usize(size, c).ok, val |-> sub_usize(size, c).val]

\* The `additional` that reserve_staging computes for a staging buffer of
\* capacity c and a chunk size of size, and the branch that computes it.
additional(c, size) ==
    LET cutoff == saturating_add(c, c \div 2)
    IN  IF cutoff > size
        THEN [flush |-> TRUE, ok |-> TRUE, val |-> size]
        ELSE [flush |-> FALSE, ok |-> sub_usize(size, c).ok, val |-> sub_usize(size, c).val]

\* A buffer whose staging region is full at a capacity of c bytes.
CutoffInit ==
    /\ variant \in {"loose", "strict"}
    /\ chunk_size \in 0..WordMax
    /\ \E c \in 0..WordMax :
         /\ staging = [BytesMutNew EXCEPT !.data = NewBytes(0, c), !.cap = c]
         /\ written = c
         /\ cap = c
    /\ chunks = <<>>
    /\ view = -1
    /\ readlog = <<>>
    /\ status = "run"
    /\ last = Op("new", 0)

\* reserve_staging on the full buffer: the flush if the cutoff asks for
\* it, then staging.reserve(additional). An allocation of more than
\* isize::MAX bytes is refused by the allocator (capacity overflow).
CutoffReserve ==
    /\ status = "run"
    /\ last.op = "new"
    /\ \E r \in {additional(staging.cap, chunk_size)} :
        \E b1 \in {IF r.flush THEN flush(Buf) ELSE Buf} :
         \E b2 \in {BytesMutReserve(b1, r.val, TRUE, 0)} :
           /\ last' = OpOut("reserve_staging", r.val, <<r.flush, r.ok>>)
           /\ IF r.ok /\ b2.st.cap <= IsizeMax
              THEN staging' = b2.st /\ chunks' = b2.ch /\ UNCHANGED status
              ELSE staging' = b1.st /\ chunks' = b1.ch /\ status' = "panic"
    /\ UNCHANGED <<variant, chunk_size, cap, view, written, readlog>>

CutoffNext == CutoffReserve

CutoffSpec == CutoffInit /\ [][CutoffNext]_vars

\* ------------------------------------------------------------- writers
\* TextWriter (write.rs) and EncodingWriter (examples/encoder.rs), each
\* around one buffer of the loose kind. Under WriterSpec `last` holds the
\* writer: which of the two it is, the method last called and what it
\* returned, the position of the call in progress (pc), and WriterState's
\* remaining_str (its length), eof_encoded, and the number of encode_eof
\* calls made so far; `item` is the length of the string given to
\* start_send.
WriterRec(kind, op, pc, ret, str, eof, eofs, item) ==
    [kind |-> kind, op |-> op, pc |-> pc, ret |-> ret, remaining_str |-> str,
     eof_encoded |-> eof, eofs |-> eofs, item |-> item]

remaining_str == last.remaining_str
eof_encoded == last.eof_encoded

\* The descriptors poll_write_buf hands to the output.
EwIoBufs == 16

\* WriterState::buf_filled
buf_filled == remaining(Buf) >= chunk_size

WriterInit ==
    /\ variant = "loose"
    /\ chunk_size \in 1..MaxChunkSize
    /\ staging = BytesMutNew
    /\ chunks = <<>>
    /\ cap = 0
    /\ view = -1
    /\ written = 0
    /\ readlog = <<>>
    /\ status = "run"
    /\ \E kind \in {"TextWriter", "EncodingWriter"} :
         last = WriterRec(kind, "new", "idle", "none", 0, FALSE, 0, 0)

\* The writer's record after a step.
Went(op, pc, ret, str, eof, eofs) ==
    last' = WriterRec(last.kind, op, pc, ret, str, eof, eofs, last.item)

\* The call in progress goes on at pc.
GoesTo(pc) == Went(last.op, pc, "none", remaining_str, eof_encoded, last.eofs)

\* The call in progress returns ret.
Returns(ret) == Went(last.op, "idle", ret, remaining_str, eof_encoded, last.eofs)

BufferKept == UNCHANGED <<staging, chunks, cap, view, readlog>>

\* TextEncoder::encode: the encoder takes j bytes off the string and puts
\* their encoding into the buffer, as a chunk of its own (Utf8Encoder) or
\* through the writable view (Utf16Encoder).
EncodedInto(b, j, zero_copy) ==
    IF zero_copy
    THEN LoosePutBytes(b, Chunk(NewBytes(written, j), "ext", written + 1))
    ELSE put_slice(b, cap, j, written, TRUE, 0).b

\* AsyncWrite::write_buf on a buffer that has bytes: the output takes the
\* first n bytes of the front slice, and the buffer is advanced by n.
WriteBuf(n) ==
    /\ n \in 1..Len(chunk(Buf))
    /\ AdvanceTo(n, Take(chunk(Buf), n))

start_Overwrite(item) ==
    IF eof_encoded THEN [out |-> "panic", str |-> remaining_str]
    ELSE [out |-> "Ready", str |-> item]

\* WriterState::start: the outcome, and remaining_str after it.
start(item) ==
    IF eof_encoded THEN [out |-> "panic", str |-> remaining_str]
    ELSE IF remaining_str # 0 THEN [out |-> "NotReady", str |-> remaining_str]
    ELSE [out |-> "Ready", str |-> item]

try_end_Always == TRUE

\* WriterState::try_end, its condition.
try_end == is_empty(Buf)

EwLoopOn_Above ==
    IF last.op = "poll_ready" THEN remaining(Buf) > chunk_size
    ELSE has_remaining(Buf)

\* Sink::start_send of TextWriter, with an item of len bytes.
TwStartSend(len) ==
    /\ status = "run"
    /\ last.kind = "TextWriter"
    /\ last.pc = "idle"
    /\ written + remaining_str + len <= MaxBytes
    /\ IF start(len).out = "panic"
       THEN /\ status' = "panic"
            /\ last' = WriterRec(last.kind, "start_send", "idle", "panic", start(len).str,
                                 eof_encoded, last.eofs, len)
            /\ BufferKept
            /\ UNCHANGED written
       ELSE IF start(len).out = "NotReady"
       THEN /\ last' = WriterRec(last.kind, "start_send", "idle", "NotReady", start(len).str,
                                 eof_encoded, last.eofs, len)
            /\ BufferKept
            /\ UNCHANGED <<written, status>>
       ELSE \E j \in (IF start(len).str = 0 THEN {0} ELSE 1..start(len).str),
               zero_copy \in BOOLEAN,
               err \in BOOLEAN :
              \E b1 \in {EncodedInto(Buf, j, zero_copy)} :
                  \E n \in 0..Len(chunk(b1)) :
                    \E w \in {advance(b1, n)} :
                        /\ staging' = w.b.st
                        /\ chunks' = w.b.ch
                        /\ readlog' = readlog \o w.dropped
                        /\ written' = written + j
                        /\ last' = WriterRec(last.kind, "start_send", "idle",
                                             IF err THEN "Err" ELSE "Ready",
                                             start(len).str - j, eof_encoded, last.eofs, len)
                        /\ UNCHANGED <<cap, view, status>>
    /\ UNCHANGED <<variant, chunk_size>>

\* poll_complete or close is called: both begin with encode_more.
TwPoll(op) ==
    /\ status = "run"
    /\ last.kind = "TextWriter"
    /\ last.pc = "idle"
    /\ Went(op, "encode_more", "none", remaining_str, eof_encoded, last.eofs)
    /\ BufferKept
    /\ UNCHANGED <<variant, chunk_size, written, status>>

\* encode_more, while the buffer is filled: write some of it out, or
\* return not ready.
TwWriteFilled ==
    /\ status = "run"
    /\ last.pc = "encode_more"
    /\ buf_filled
    /\ \/ \E n \in 1..MaxBytes : WriteBuf(n) /\ GoesTo("encode_more")
       \/ BufferKept /\ UNCHANGED status /\ Returns("NotReady")
       \/ BufferKept /\ UNCHANGED status /\ Returns("Err")
    /\ UNCHANGED <<variant, chunk_size, written>>

\* encode_more, once the buffer is below the chunk size: encode the next
\* piece of the string if there is any left.
TwEncode ==
    /\ status = "run"
    /\ last.pc = "encode_more"
    /\ ~buf_filled
    /\ \E j \in (IF remaining_str = 0 THEN {0} ELSE 1..remaining_str),
          zero_copy \in BOOLEAN :
         \E b1 \in {EncodedInto(Buf, j, zero_copy)} :
             /\ staging' = b1.st
             /\ chunks' = b1.ch
             /\ written' = written + j
             /\ Went(last.op, IF last.op = "close" THEN "eof" ELSE "try_end", "none",
                     remaining_str - j, eof_encoded, last.eofs)
    /\ UNCHANGED <<variant, chunk_size, cap, view, readlog, status>>

\* close: finalize the encoder once, when nothing is left to encode; the
\* encoder may put e more bytes into the buffer.
TwEncodeEof ==
    /\ status = "run"
    /\ last.pc = "eof"
    /\ IF remaining_str = 0 /\ ~eof_encoded
       THEN \E e \in 0..1 :
              \E b1 \in {EncodedInto(Buf, e, FALSE)} :
                  /\ staging' = b1.st
                  /\ chunks' = b1.ch
                  /\ written' = written + e
                  /\ Went(last.op, "try_end", "none", remaining_str, TRUE, last.eofs + 1)
       ELSE /\ GoesTo("try_end")
            /\ UNCHANGED <<staging, chunks, written>>
    /\ UNCHANGED <<variant, chunk_size, cap, view, readlog, status>>

\* WriterState::try_end and the rest of the loop body: done when the
\* buffer is empty, otherwise write some of it out and go round again.
TwTryEnd ==
    /\ status = "run"
    /\ last.pc = "try_end"
    /\ IF try_end
       THEN /\ BufferKept
            /\ IF remaining_str # 0
               THEN status' = "panic" /\ Returns("panic")
               ELSE /\ UNCHANGED status
                    /\ Went(last.op, "idle", "Ready", 0, eof_encoded, last.eofs)
       ELSE \/ \E n \in 1..MaxBytes : WriteBuf(n) /\ GoesTo("encode_more")
            \/ BufferKept /\ UNCHANGED status /\ Returns("NotReady")
            \/ BufferKept /\ UNCHANGED status /\ Returns("Err")
    /\ UNCHANGED <<variant, chunk_size, written>>

\* Sink::start_send of EncodingWriter: encode_message puts the fields
\* through the writable view (n bytes) and the blob as a chunk (m bytes).
EwStartSend(n, m) ==
    /\ status = "run"
    /\ last.kind = "EncodingWriter"
    /\ last.pc = "idle"
    /\ written + n + m <= MaxBytes
    /\ \E b1 \in {put_slice(Buf, cap, n, written, TRUE, 0).b} :
        \E b2 \in {LoosePutBytes(b1, Chunk(NewBytes(written + n, m), "ext", written + n + 1))} :
           /\ staging' = b2.st
           /\ chunks' = b2.ch
           /\ written' = written + n + m
    /\ last' = WriterRec(last.kind, "start_send", "idle", "Ready", 0, FALSE, 0, n + m)
    /\ UNCHANGED <<variant, chunk_size, cap, view, readlog, status>>

\* poll_ready, poll_flush or poll_close of EncodingWriter is called.
EwPoll(op) ==
    /\ status = "run"
    /\ last.kind = "EncodingWriter"
    /\ last.pc = "idle"
    /\ Went(op, "loop", "none", 0, FALSE, 0)
    /\ BufferKept
    /\ UNCHANGED <<variant, chunk_size, written, status>>

\* The loop condition of the call in progress: poll_ready drains while a
\* chunk's worth is buffered, poll_flush_buf while anything is.
EwLoopOn ==
    IF last.op = "poll_ready" THEN remaining(Buf) >= chunk_size
    ELSE has_remaining(Buf)

\* One round of the loop: poll_write_buf gathers the descriptors, the
\* output takes n bytes or is not ready, and the buffer is advanced.
EwWrite ==
    /\ status = "run"
    /\ last.kind = "EncodingWriter"
    /\ last.pc = "loop"
    /\ EwLoopOn
    /\ \/ \E n \in 1..MaxBytes :
            /\ n <= Len(Concat(chunks_vectored(Buf, EwIoBufs)))
            /\ AdvanceTo(n, Take(Concat(chunks_vectored(Buf, EwIoBufs)), n))
            /\ GoesTo("loop")
       \/ BufferKept /\ UNCHANGED status /\ Returns("Pending")
       \/ BufferKept /\ UNCHANGED status /\ Returns("Err")
    /\ UNCHANGED <<variant, chunk_size, written>>

\* The loop is left: poll_ready is ready; poll_flush and poll_close hand
\* over to the output, which is ready or not.
EwDone ==
    /\ status = "run"
    /\ last.kind = "EncodingWriter"
    /\ last.pc = "loop"
    /\ ~EwLoopOn
    /\ \/ Returns("Ready")
       \/ last.op # "poll_ready" /\ Returns("Pending")
    /\ BufferKept
    /\ UNCHANGED <<variant, chunk_size, written, status>>

WriterNext ==
    \/ \E len \in 0..MaxBytes : TwStartSend(len)
    \/ \E op \in {"poll_complete", "close"} : TwPoll(op)
    \/ TwWriteFilled
    \/ TwEncode
    \/ TwEncodeEof
    \/ TwTryEnd
    \/ \E n, m \in 0..MaxBytes : EwStartSend(n, m)
    \/ \E op \in {"poll_ready", "poll_flush", "poll_close"} : EwPoll(op)
    \/ EwWrite
    \/ EwDone

WriterSpec == WriterInit /\ [][WriterNext]_vars

\* ------------------------------------------------------------- properties
\* The unread bytes in read order: the chunks front to back, then staging.
Unread == Flatten(chunks) \o staging.data

\* C1 (round-trip FIFO): in both variants and for every chunk size, the
\* bytes read so far are the first bytes written, in write order, none read
\* twice, and the bytes read followed by the bytes still unread are exactly
\* the bytes written; so once as many bytes are read as were written, what
\* was read is what was written.
C1_RoundTripFifo ==
    /\ Len(readlog) <= written
    /\ readlog = NewBytes(0, Len(readlog))
    /\ readlog \o Unread = NewBytes(0, written)

\* All MaxBytes bytes were written, some staged and flushed, and all were
\* read back, the last of them through gather and advance.
C1_Witness ==
    /\ status = "run"
    /\ chunk_size >= 1
    /\ written = MaxBytes
    /\ readlog = NewBytes(0, MaxBytes)
    /\ last.op = "bytes_vectored"

C3_StrictBound ==
    variant = "strict" =>
        /\ \A i \in 1..Len(chunks) : Len(chunks[i].data) <= chunk_size
        /\ Len(chunk(Buf)) <= chunk_size
        /\ \A k \in 0..MaxK + 1 :
             \A i \in 1..Len(chunks_vectored(Buf, k)) :
                Len(chunks_vectored(Buf, k)[i]) <= chunk_size

\* A range longer than the limit was ingested behind a flushed staging
\* chunk, and was split.
C3_Witness ==
    /\ variant = "strict"
    /\ status = "run"
    /\ chunk_size >= 1
    /\ last.op = "put_bytes"
    /\ last.n > chunk_size
    /\ Len(chunks) >= 3
    /\ chunks[1].store = "cur"

\* C4 (commit within the view): in the strict variant a view of length v
\* leaves room for v bytes below cap (staging_len + v <= cap), so that no
\* commit of n <= v bytes trips the assertion of advance_mut.
C4_CommitWithinView ==
    variant = "strict" =>
        /\ (view >= 0 => Len(staging.data) + view <= cap)
        /\ ~(status = "panic" /\ last.op = "advance_mut")

\* A loose commit: the step of advance_mut in the loose variant.
LooseCommitStep == variant = "loose" /\ last'.op = "advance_mut"

\* A loose writable_view: the step of bytes_mut in the loose variant.
LooseViewStep == variant = "loose" /\ last'.op = "bytes_mut"

\* The reservation step of a loose writable_view flushes: staging is full
\* and not empty, and cap + cap/2 exceeds the chunk size.
ReservationFlushes ==
    /\ staging.data # <<>>
    /\ Len(staging.data) = staging.cap
    /\ staging.cap + staging.cap \div 2 > chunk_size

C6_NoEmptyChunk == \A i \in 1..Len(chunks) : chunks[i].data # <<>>

\* C7 (strict capacity invariant): in the strict variant
\* staging_len <= cap <= chunk size limit, so the checks of
\* staging_len <= chunk_size in flush, into_chunks and gather never fail.
C7_StrictCapInvariant ==
    variant = "strict" =>
        /\ 0 <= cap
        /\ Len(staging.data) <= cap
        /\ cap <= chunk_size
        /\ ~(status = "panic" /\ last.op \in {"flush", "into_chunks", "bytes_vectored"})

\* The strict staging region was filled to cap, which is the limit, by a
\* commit, after the allocator gave more capacity than the limit.
C7_Witness ==
    /\ variant = "strict"
    /\ status = "run"
    /\ last.op = "advance_mut"
    /\ chunk_size >= 1
    /\ cap = chunk_size
    /\ Len(staging.data) = cap
    /\ staging.cap > chunk_size

\* The chunks at the tail of the queue that reference the range last
\* ingested (whose first byte is `first`).
IsIngested(c, first) == c.store = "ext" /\ c.sid = first
IngestedTail(first) ==
    SelectSeq(chunks, LAMBDA c : IsIngested(c, first))

\* No byte is read before a byte written before it: bytes read precede
\* the unread ones, and the unread ones are in write order.
InWriteOrder ==
    /\ \A i \in 1..Len(readlog) : \A j \in 1..Len(Unread) : readlog[i] < Unread[j]
    /\ \A i \in 1..Len(Unread) : \A j \in 1..Len(Unread) : i < j => Unread[i] < Unread[j]

\* C8 (ingestion ordering): after put_bytes of a non-empty range staging
\* is empty and the range is the tail of the queue, behind every byte
\* written before; and at all times the read order is the write order, so
\* bytes written before the range are read before it and bytes written
\* after it are read after it.
C8_IngestionOrdering ==
    /\ InWriteOrder
    /\ (status = "run" /\ last.op = "put_bytes" /\ last.n >= 1) =>
          LET first == written - last.n + 1
              tail == IngestedTail(first)
          IN  /\ staging.data = <<>>
              /\ Len(tail) >= 1
              /\ SubSeq(chunks, Len(chunks) - Len(tail) + 1, Len(chunks)) = tail
              /\ Flatten(tail) = NewBytes(written - last.n, last.n)
              /\ Flatten(chunks) = NewBytes(Len(readlog), written - Len(readlog))

\* A range was ingested while bytes were staged: the staged bytes are now
\* a chunk in front of it.
C8_Witness ==
    /\ status = "run"
    /\ last.op = "put_bytes"
    /\ last.n >= 2
    /\ chunk_size >= 1
    /\ Len(chunks) >= 2
    /\ chunks[1].store # "ext"
    /\ chunks[Len(chunks)].store = "ext"

\* C9 (empty ingestion): put_bytes of an empty range changes nothing: the
\* queue, the staging region (content and capacity) and the strict cap are
\* as before; staged bytes stay staged.
C9_EmptyPutIsNoOp ==
    [][ (last'.op = "put_bytes" /\ last'.n = 0) =>
            /\ chunks' = chunks
            /\ staging' = staging
            /\ cap' = cap
            /\ status' = status
            /\ written' = written ]_vars

\* An empty range was ingested while bytes were staged, and they still are.
C9_Witness ==
    /\ last.op = "put_bytes"
    /\ last.n = 0
    /\ staging.data # <<>>
    /\ chunks # <<>>

\* C10 (loose ingestion): in the loose variant put_bytes of a non-empty
\* range appends, behind the chunk a flush of staging makes, exactly one
\* chunk: the range itself, whole whatever its length, referencing the
\* caller's storage; and into_chunks right after ingesting into a buffer
\* nothing else was written to yields that one chunk alone.
C10_LooseIngestsWhole ==
    [][ /\ (variant = "loose" /\ last'.op = "put_bytes" /\ last'.n >= 1) =>
            /\ Len(chunks') = Len(chunks) + (IF staging.data # <<>> THEN 2 ELSE 1)
            /\ SubSeq(chunks', 1, Len(chunks)) = chunks
            /\ chunks'[Len(chunks')] =
                  Chunk(NewBytes(written, last'.n), "ext", written + 1)
        /\ (/\ variant = "loose"
            /\ last.op = "put_bytes" /\ last.n >= 1 /\ last.n = written
            /\ last'.op = "into_chunks") =>
            chunks' = <<Chunk(NewBytes(0, written), "ext", 1)>> ]_vars

\* A range longer than the chunk size was ingested into a fresh loose
\* buffer and into_chunks holds it as its only element.
C10_Witness ==
    /\ variant = "loose"
    /\ status = "consumed"
    /\ chunk_size >= 1
    /\ written > chunk_size
    /\ Len(chunks) = 1
    /\ chunks[1].store = "ext"
    /\ Len(chunks[1].data) = written

\* C11 (strict ingestion): in the strict variant with limit L >= 1,
\* put_bytes of a range of N >= 1 bytes returns and appends, behind the
\* chunk a flush of staging makes, exactly ceil(N/L) chunks, each a
\* sub-range of the caller's storage, all but the last of length L, the
\* last of length 1..L, whose concatenation is the range.
C11_StrictIngestsSplit ==
    [][ (variant = "strict" /\ chunk_size >= 1 /\ last'.op = "put_bytes" /\ last'.n >= 1) =>
            LET N == last'.n
                L == chunk_size
                k == (N + L - 1) \div L
                base == Len(chunks) + (IF staging.data # <<>> THEN 1 ELSE 0)
                new == SubSeq(chunks', base + 1, Len(chunks'))
            IN  /\ status' = "run"
                /\ Len(chunks') = base + k
                /\ SubSeq(chunks', 1, Len(chunks)) = chunks
                /\ \A i \in 1..k :
                     /\ new[i].store = "ext"
                     /\ new[i].sid = written + 1
                     /\ Len(new[i].data) = IF i < k THEN L ELSE N - (k - 1) * L
                     /\ Len(new[i].data) \in 1..L
                /\ Flatten(new) = NewBytes(written, N) ]_vars

\* A range that is not a multiple of the limit was ingested in the strict
\* variant: a chunk of the limit's length, then a shorter one.
C11_Witness ==
    /\ variant = "strict"
    /\ status = "run"
    /\ last.op = "put_bytes"
    /\ chunk_size >= 2
    /\ last.n > chunk_size
    /\ last.n % chunk_size # 0
    /\ Len(IngestedTail(written - last.n + 1)) = 2
    /\ Len(chunks[Len(chunks)].data) < chunk_size

\* The unread byte stream as the writer produced it: the bytes written
\* that were not consumed, in write order.
UnreadStream == NewBytes(Len(readlog), written - Len(readlog))

\* C12 (front_slice): front_slice() is the unread bytes of the oldest
\* queued chunk whenever a chunk is queued, the staging bytes only when the
\* queue is empty, and always a prefix of the unread byte stream.
C12_FrontSlice ==
    LET s == chunk(Buf)
    IN  /\ chunks # <<>> => s = chunks[1].data
        /\ chunks = <<>> => s = staging.data
        /\ Len(s) <= Len(UnreadStream)
        /\ s = Take(UnreadStream, Len(s))

\* Part of the front chunk was read through front_slice; the rest of it is
\* the front slice, with bytes staged behind it.
C12_Witness ==
    /\ status = "run"
    /\ last.op = "bytes"
    /\ chunks # <<>>
    /\ chunks[1].store = "ext"
    /\ chunks[1].data[1] > chunks[1].sid
    /\ staging.data # <<>>
    /\ chunk(Buf) = chunks[1].data

\* C13 (gather): gather with K descriptors fills the first min(K, #chunks)
\* with the queued chunks in queue order, then one with the staging bytes
\* iff #chunks < K and staging is not empty; it fills no more than K; the
\* concatenation of the descriptors is a prefix of the unread byte stream,
\* and the whole of it when K > #chunks.
C13_Gather ==
    \A K \in 0..MaxK + 1 :
        LET d == chunks_vectored(Buf, K)
            n == Min(K, Len(chunks))
            withStaging == Len(chunks) < K /\ staging.data # <<>>
        IN  /\ Len(d) <= K
            /\ Len(d) = n + (IF withStaging THEN 1 ELSE 0)
            /\ \A i \in 1..n : d[i] = chunks[i].data
            /\ withStaging => d[n + 1] = staging.data
            /\ Len(Concat(d)) <= Len(UnreadStream)
            /\ Concat(d) = Take(UnreadStream, Len(Concat(d)))
            /\ K > Len(chunks) => Concat(d) = UnreadStream

\* Bytes were read through gather and a chunk and staged bytes remain: one
\* descriptor takes the chunk alone, two take the whole stream.
C13_Witness ==
    /\ status = "run"
    /\ last.op = "bytes_vectored"
    /\ readlog # <<>>
    /\ Len(chunks) = 1
    /\ staging.data # <<>>
    /\ Len(chunks_vectored(Buf, 1)) = 1
    /\ Len(chunks_vectored(Buf, 2)) = 2

\* C14 (cancellation safety of reads): gather, front_slice, remaining and
\* is_empty leave the queue, the chunk offsets, the staging region and the
\* strict cap unchanged, so after an abandoned I/O attempt every gather
\* with the same number of descriptors returns the same descriptors, and
\* front_slice and remaining the same values.
C14_ReadsChangeNothing ==
    [][ last'.op = "peek" =>
            /\ chunks' = chunks
            /\ staging' = staging
            /\ cap' = cap
            /\ chunk_size' = chunk_size
            /\ status' = status
            /\ readlog' = readlog
            /\ \A K \in 0..MaxK + 1 : chunks_vectored(Buf, K)' = chunks_vectored(Buf, K)
            /\ chunk(Buf)' = chunk(Buf)
            /\ remaining(Buf)' = remaining(Buf)
            /\ is_empty(Buf)' = is_empty(Buf) ]_vars

\* An I/O attempt was abandoned after its reads, with a partly read chunk
\* at the front and bytes staged behind it.
C14_Witness ==
    /\ status = "run"
    /\ last.op = "peek"
    /\ chunks # <<>>
    /\ chunks[1].store = "ext"
    /\ chunks[1].data[1] > chunks[1].sid
    /\ staging.data # <<>>
    /\ cap > 0

\* The number of bytes in the first k queued chunks.
PrefixLen(k) == Len(Flatten(SubSeq(chunks, 1, k)))

\* The number of queued chunks that lie entirely within the first cnt
\* unread bytes.
ChunksWithin(cnt) ==
    CHOOSE k \in 0..Len(chunks) :
        /\ PrefixLen(k) <= cnt
        /\ k = Len(chunks) \/ PrefixLen(k + 1) > cnt

\* C15 (advance): advance(cnt) with cnt <= remaining() removes exactly the
\* first cnt unread bytes: the chunks that lie entirely within them are
\* popped; a chunk that cnt lands inside stays at the front with its start
\* moved by the leftover, and then the later chunks and staging are
\* unchanged; staging is advanced only when no chunk remains, by cnt minus
\* the popped bytes.
C15_AdvanceRemovesPrefix ==
    [][ (last'.op = "advance" /\ last'.n <= remaining(Buf)) =>
            LET cnt == last'.n
                k == ChunksWithin(cnt)
                leftover == cnt - PrefixLen(k)
            IN  /\ status' = "run"
                /\ Flatten(chunks') \o staging'.data = Drop(Unread, cnt)
                /\ readlog' = readlog \o Take(Unread, cnt)
                /\ remaining(Buf)' = remaining(Buf) - cnt
                /\ IF k < Len(chunks)
                   THEN /\ chunks' = <<[chunks[k + 1] EXCEPT !.data = Drop(@, leftover)]>>
                                      \o SubSeq(chunks, k + 2, Len(chunks))
                        /\ staging' = staging
                   ELSE /\ chunks' = <<>>
                        /\ staging'.data = Drop(staging.data, leftover) ]_vars

\* One advance went over a whole chunk and stopped inside the next one,
\* with later bytes staged or queued behind.
C15_Witness ==
    /\ status = "run"
    /\ last.op = "advance"
    /\ last.n >= 2
    /\ Len(readlog) = last.n
    /\ chunks # <<>>
    /\ chunks[1].store = "ext"
    /\ chunks[1].sid > 1
    /\ chunks[1].data[1] > chunks[1].sid

\* C16 (over-advance): in both variants advance(cnt) with
\* cnt > remaining() ends in a panic: it never returns, and the strict cap
\* is not moved (no wrapped or clamped cursor).
C16_OverAdvancePanics ==
    [][ (last'.op = "advance" /\ last'.n > remaining(Buf)) =>
            /\ status' = "panic"
            /\ cap' = cap ]_vars

\* An advance beyond remaining() has panicked in the strict variant, after
\* its loop went over queued chunks.
C16_Witness ==
    /\ variant = "strict"
    /\ status = "panic"
    /\ last.op = "advance"
    /\ last.n = Len(readlog) + 1
    /\ readlog # <<>>
    /\ cap > 0

\* C17 (extract): for every len, also len > remaining(), and every buffer
\* state, extract(len) returns the first min(len, remaining()) unread
\* bytes as one range; remaining() decreases by that amount and the rest
\* of the stream is unchanged.
C17_ExtractClamps ==
    [][ \A len \in 0..MaxBytes + 1 :
          (last'.op = "copy_to_bytes" /\ Extract(len)) =>
            LET m == Min(len, remaining(Buf))
            IN  /\ status' = "run"
                /\ last'.ret.data = Take(Unread, m)
                /\ remaining(Buf)' = remaining(Buf) - m
                /\ Flatten(chunks') \o staging'.data = Drop(Unread, m) ]_vars

\* C18 (extract copies only to concatenate): with no chunk queued the
\* range extract(len) returns is a slice of the staging allocation, and
\* when the front chunk alone covers len it shares the front chunk's
\* storage; it is a fresh copy only otherwise.
C18_ExtractSharesSingleSource ==
    [][ \A len \in 0..MaxBytes + 1 :
          (last'.op = "copy_to_bytes" /\ status' = "run" /\ Extract(len)) =>
            /\ chunks = <<>> => last'.ret.store = "cur"
            /\ (chunks # <<>> /\ len <= Len(chunks[1].data)) =>
                  /\ last'.ret.store = chunks[1].store
                  /\ last'.ret.sid = chunks[1].sid ]_vars

\* C19 (take_all): take_all() returns every unread byte, the chunks front
\* to back and then the staging bytes, as one range, and leaves no chunk,
\* no staged byte and remaining() = 0; a single chunk with nothing staged
\* is returned as it is, and with no chunk queued the range is the staging
\* allocation's, in both cases without a copy.
C19_TakeAll ==
    [][ last'.op = "to_bytes" =>
            /\ status' = "run"
            /\ last'.ret.data = Unread
            /\ readlog' = readlog \o Unread
            /\ chunks' = <<>>
            /\ staging'.data = <<>>
            /\ remaining(Buf)' = 0
            /\ is_empty(Buf)'
            /\ (Len(chunks) = 1 /\ staging.data = <<>>) => last'.ret = chunks[1]
            /\ chunks = <<>> => last'.ret.store = "cur"
            /\ last'.ret.store = "copy" =>
                  Len(chunks) + (IF staging.data # <<>> THEN 1 ELSE 0) >= 2 ]_vars

\* take_all() has gathered a queued chunk and staged bytes into one range
\* and left the buffer empty.
C19_Witness ==
    /\ status = "run"
    /\ last.op = "to_bytes"
    /\ last.ret.store = "copy"
    /\ Len(last.ret.data) >= 2
    /\ readlog = NewBytes(0, written)
    /\ is_empty(Buf)

\* C20 (flush): flush() with bytes staged appends exactly one chunk, made
\* of exactly the staged bytes, at the tail of the queue and leaves staging
\* empty; with nothing staged it changes nothing; either way the earlier
\* chunks are untouched and remaining() is unchanged, and a flush right
\* after a flush changes nothing.
C20_Flush ==
    [][ last'.op = "flush" =>
            /\ status' = status
            /\ IF staging.data # <<>>
               THEN /\ Len(chunks') = Len(chunks) + 1
                    /\ chunks'[Len(chunks')].data = staging.data
                    /\ staging'.data = <<>>
               ELSE /\ chunks' = chunks
                    /\ staging' = staging
            /\ SubSeq(chunks', 1, Len(chunks)) = chunks
            /\ remaining(Buf)' = remaining(Buf)
            /\ cap' = cap
            /\ last.op = "flush" => (chunks' = chunks /\ staging' = staging) ]_vars

\* A flush has moved the staged bytes behind an ingested chunk: the new
\* chunk references the staging allocation and staging is empty.
C20_Witness ==
    /\ status = "run"
    /\ last.op = "flush"
    /\ staging.data = <<>>
    /\ staging.kind = "arc"
    /\ Len(chunks) >= 2
    /\ chunks[1].store = "ext"
    /\ chunks[Len(chunks)].store = "cur"

\* C21 (draining iterator): the draining iterator yields the queued chunks
\* front to back and never the staging bytes; once it is dropped, after
\* any number of next() calls, the queue is empty and the staging content
\* is as before, so remaining() is the staging length; a drain right after
\* a drain yields no element.
C21_DrainChunks ==
    [][ last'.op = "drain_chunks" =>
            /\ last'.out = SubSeq(chunks, 1, last'.n)
            /\ Len(last'.out) <= Len(chunks)
            /\ chunks' = <<>>
            /\ staging'.data = staging.data
            /\ staging'.cap = staging.cap
            /\ remaining(Buf)' = Len(staging.data)
            /\ status' = status
            /\ cap' = cap
            /\ last.op = "drain_chunks" => last'.out = <<>> ]_vars

\* A draining iterator was dropped after it yielded the first of two
\* chunks: both are gone and the staged byte is still staged.
C21_Witness ==
    /\ status = "run"
    /\ last.op = "drain_chunks"
    /\ last.n = 1
    /\ Len(last.out) = 1
    /\ last.out[1].data = <<1>>
    /\ readlog = <<1, 2>>
    /\ chunks = <<>>
    /\ staging.data = <<3>>

\* C22 (consuming iterator): the consuming iterator yields every queued
\* chunk in read order and then, iff staging holds bytes, one last element
\* with exactly the staging bytes; the elements concatenate to the unread
\* byte stream and none is empty.
C22_IntoChunks ==
    [][ (last'.op = "into_chunks" /\ status' = "consumed") =>
            LET elems == IterNext(chunks', Len(chunks'))
            IN  /\ SubSeq(elems, 1, Len(chunks)) = chunks
                /\ Len(elems) = Len(chunks) + (IF staging.data # <<>> THEN 1 ELSE 0)
                /\ staging.data # <<>> => elems[Len(elems)].data = staging.data
                /\ Flatten(elems) = Unread
                /\ Flatten(elems) = UnreadStream
                /\ \A i \in 1..Len(elems) : elems[i].data # <<>> ]_vars

\* A buffer with a partly read chunk and staged bytes was turned into its
\* consuming iterator: two elements, the second from staging.
C22_Witness ==
    /\ status = "consumed"
    /\ last.op = "into_chunks"
    /\ Len(chunks) = 2
    /\ chunks[1].store = "ext"
    /\ chunks[1].data[1] > chunks[1].sid
    /\ chunks[2].store = "cur"
    /\ readlog # <<>>

C24_FillAndFlush ==
    /\ (written = 0 /\ last.op = "bytes_mut") =>
          /\ view = ScenChunkSize
          /\ view >= chunk_size
    /\ (written = ScenChunkSize /\ readlog = <<>> /\ last.op = "bytes_mut") =>
          /\ Len(chunks) = 1
          /\ chunks[1].data = NewBytes(0, ScenChunkSize)
          /\ staging.data = <<>>
          /\ view = ScenChunkSize
    /\ (written = ScenChunkSize /\ last.op = "drain_chunks") =>
          /\ readlog = NewBytes(0, ScenChunkSize)
          /\ chunks = <<>>
          /\ last.n <= 1
          /\ last.n = 1 => last.out[1].data = NewBytes(0, ScenChunkSize)

\* The first block of the test has run: the chunk of cap bytes was drained
\* from a buffer that has written nothing else.
C24_Witness ==
    /\ chunk_size = ScenChunkSize
    /\ written = ScenChunkSize
    /\ last.op = "drain_chunks"
    /\ last.n = 1
    /\ Len(last.out[1].data) = ScenChunkSize
    /\ is_empty(Buf)

\* C25 (partially read staging that fills up): in both variants, with the
\* staging capacity cap established, after cap-4 bytes are written, cap-6
\* bytes are advanced over and 4 more bytes are written, the writable view
\* has length cap again, the 6 unread staged bytes having been split off as
\* a chunk; draining yields exactly that chunk of length 6.
C25_PartialReadFill ==
    /\ (written = ScenSecond /\ Len(readlog) = ScenFill + (ScenChunkSize - ScenLessB)
          /\ last.op = "bytes_mut") =>
          /\ view = ScenChunkSize
          /\ staging.cap = ScenChunkSize
          /\ staging.data = <<>>
          /\ Len(chunks) = 1
          /\ chunks[1].data = UnreadStream
          /\ Len(chunks[1].data) = ScenLessB
    /\ (written = ScenSecond /\ last.op = "drain_chunks") =>
          /\ Len(readlog) = ScenSecond
          /\ chunks = <<>>
          /\ last.n <= 1
          /\ last.n = 1 => Len(last.out[1].data) = ScenLessB

\* The second block of the test has run: the chunk of the 6 unread bytes was
\* drained.
C25_Witness ==
    /\ written = ScenSecond
    /\ last.op = "drain_chunks"
    /\ last.n = 1
    /\ Len(last.out[1].data) = ScenLessB
    /\ staging.cap = ScenChunkSize

\* C26 (capacity reuse after a full drain): in both variants, with the
\* staging capacity cap established, after cap-5 bytes are written, the same
\* cap-5 bytes are advanced over and 5 bytes are written, the writable view
\* has length cap-5, the staging capacity is cap (the consumed prefix is
\* reclaimed in place), and no chunk has been flushed: draining yields
\* nothing.
C26_ReuseAfterDrain ==
    /\ (written = ScenSecond + ScenChunkSize /\ last.op = "bytes_mut") =>
          /\ Len(readlog) = ScenSecond + (ScenChunkSize - ScenLessC)
          /\ view = ScenChunkSize - ScenLessC
          /\ staging.cap = ScenChunkSize
          /\ staging.off = 0
          /\ staging.data = UnreadStream
          /\ Len(staging.data) = ScenLessC
          /\ chunks = <<>>
    /\ (written = ScenSecond + ScenChunkSize /\ last.op = "drain_chunks") =>
          /\ last.n = 0
          /\ last.out = <<>>
          /\ staging.cap = ScenChunkSize
          /\ Len(staging.data) = ScenLessC

\* The third block of the test has run: the drain after the last write
\* found no chunk and the 5 bytes are still staged.
C26_Witness ==
    /\ written = ScenSecond + ScenChunkSize
    /\ last.op = "drain_chunks"
    /\ Len(staging.data) = ScenLessC
    /\ staging.cap = ScenChunkSize
    /\ last.n = 0
    /\ chunks = <<>>

\* C27 (no silent wrap): no length or capacity computation returns a value
\* reduced modulo 2^w: remaining() returns the staging length plus the sum
\* of the chunk lengths, the strict commit check computes staging_len + n
\* exactly, and the reservation cutoff is cap + cap/2 or the saturated
\* value; an overflowing computation fails instead of returning.
C27_NoSilentWrap ==
    /\ (last.op = "remaining" /\ status = "run") =>
          last.out[1] = remaining(Buf)
    /\ (variant = "strict" /\ last.op = "advance_mut" /\ status = "run") =>
          last.out[2] = last.out[1] + last.n
    /\ saturating_add(staging.cap, staging.cap \div 2)
          \in {staging.cap + staging.cap \div 2, WordMax}

\* The bytes of each queued chunk, without the storage labels.
ChunkData(ch) == [i \in 1..Len(ch) |-> ch[i].data]

\* bytes_mut calls reserve_staging when the staging region is full: by its
\* capacity in the loose variant, by cap in the strict one.
ReserveCalled ==
    IF variant = "loose" THEN Len(staging.data) = staging.cap
    ELSE Len(staging.data) = cap

\* C28 (reservation algorithm): with cap the staging capacity and
\* cutoff = cap + cap/2, a reservation flushes the staged bytes to a chunk
\* and asks for chunk_size bytes exactly when cutoff > chunk_size; otherwise
\* it flushes nothing, asks for chunk_size - cap more bytes, and the staged
\* unread bytes stay in staging with their content. A writable view that
\* makes no reservation moves no byte.
C28_Reservation ==
    [][last'.op = "bytes_mut" =>
         LET c == staging.cap
             cutoff == c + c \div 2
         IN  IF ~ReserveCalled
             THEN /\ ChunkData(chunks') = ChunkData(chunks)
                  /\ staging'.data = staging.data
             ELSE IF cutoff > chunk_size
             THEN /\ ChunkData(chunks') = ChunkData(flush(Buf).ch)
                  /\ staging'.data = <<>>
                  /\ staging'.cap >= chunk_size
             ELSE /\ ChunkData(chunks') = ChunkData(chunks)
                  /\ staging'.data = staging.data
                  /\ staging'.cap - Len(staging.data) >= chunk_size - c
    ]_vars

\* A reservation has taken the second case with an unread byte staged: of 2
\* bytes written into a region of capacity 2 one was read, the region was
\* full again at capacity 1, and the view of 1 byte was made in place.
C28_Witness ==
    /\ last.op = "bytes_mut"
    /\ chunk_size = 2
    /\ written = 2
    /\ Len(readlog) = 1
    /\ chunks = <<>>
    /\ staging.data = <<2>>
    /\ staging.cap = 2
    /\ view = 1

\* C29 (strict cap bookkeeping on reads): advance(cnt) with
\* cnt <= remaining() takes off cap exactly the bytes it consumed from the
\* staging region, cnt less the bytes of the chunks it popped; it leaves cap
\* as it is when it stops inside a chunk; and cap does not go below zero.
C29_StrictCapOnAdvance ==
    [][(variant = "strict" /\ last'.op = "advance" /\ last'.n <= remaining(Buf)) =>
         LET queued == SumLen(chunks, 0)
         IN  /\ status' = "run"
             /\ last'.n < queued => cap' = cap
             /\ last'.n >= queued =>
                   /\ cap' = cap - (last'.n - queued)
                   /\ Len(staging.data) - Len(staging'.data) = cap - cap'
             /\ cap' >= 0
    ]_vars

\* A strict advance over 2 bytes has popped a chunk of 1 byte and read 1 of
\* the 2 staged bytes: the staging vector's read offset is 1 and cap went
\* from 2 to 1.
C29_Witness ==
    /\ variant = "strict"
    /\ last.op = "advance"
    /\ last.n = 2
    /\ Len(readlog) = 2
    /\ chunks = <<>>
    /\ staging.kind = "vec"
    /\ staging.off = 1
    /\ staging.data = <<3>>
    /\ cap = 1

\* C30 (strict cap consistent with the capacity): in every reachable state
\* of the strict variant, also after a flush() or a put_bytes that split
\* the staged bytes off, cap does not exceed the capacity of the staging
\* region, so cap - staging_len bytes can be written without a reservation.
C30_CapWithinCapacity ==
    (variant = "strict" /\ status = "run") =>
        /\ cap <= staging.cap
        /\ cap - Len(staging.data) <= staging.cap - Len(staging.data)

\* C31 (writable_view preserves the read side): in both variants a call of
\* writable_view() in any state, also one whose reservation step flushes
\* staging or moves the staged bytes, changes neither remaining() nor the
\* sequence of unread bytes, reads nothing, and queues a chunk only when
\* the staging region was full (by capacity in the loose variant, by cap in
\* the strict one).
C31_ViewPreservesReadSide ==
    [][last'.op = "bytes_mut" =>
         /\ Flatten(chunks') \o staging'.data = Unread
         /\ SumLen(chunks', Len(staging'.data)) = remaining(Buf)
         /\ readlog' = readlog
         /\ written' = written
         /\ status' = status
         /\ ChunkData(chunks') # ChunkData(chunks) => ReserveCalled
         /\ staging'.data # staging.data => ReserveCalled
    ]_vars

\* A loose writable_view() found the staging region full of unread bytes
\* and its reservation split them off: they are queued as a chunk on the
\* allocation staging has left, and the view is a whole new region.
C31_Witness ==
    /\ variant = "loose"
    /\ last.op = "bytes_mut"
    /\ chunk_size = 2
    /\ written = 2
    /\ readlog = <<>>
    /\ Len(chunks) = 1
    /\ chunks[1].data = <<1, 2>>
    /\ chunks[1].store = "old"
    /\ staging.data = <<>>
    /\ view >= 2

\* C32 (write progress): for every chunk size >= 1 and in every reachable
\* state of either variant, writable_view() returns a view of at least one
\* byte, so a producer loop that takes the view, fills
\* min(view length, bytes left) and commits comes to an end.
ViewNonEmpty ==
    (last.op = "bytes_mut" /\ chunk_size >= 1) =>
        /\ status = "run"
        /\ view >= 1
        /\ staging.cap - Len(staging.data) >= view

C32_WriteProgress ==
    /\ []ViewNonEmpty
    /\ <>(written = MaxBytes \/ status # "run")

\* A strict view taken after a flush() emptied a full staging region: cap
\* still has its old value, the region had no capacity left, and the view
\* is non-empty all the same.
C32_Witness ==
    /\ variant = "strict"
    /\ last.op = "bytes_mut"
    /\ chunk_size >= 1
    /\ Len(chunks) >= 1
    /\ chunks[Len(chunks)].store = "old"
    /\ staging.data = <<>>
    /\ view >= 1
    /\ written >= 1
    /\ written < MaxBytes

C34_ReadableWhenRemaining ==
    status = "run" =>
        \A k \in 1..MaxK :
            LET got == chunks_vectored(Buf, k)
            IN  /\ remaining(Buf) > 0 => (chunk(Buf) # <<>> /\ Len(got) >= 1)
                /\ \A i \in 1..Len(got) : got[i] # <<>>
                /\ got = <<>> => is_empty(Buf)

\* The read-only calls were made on a buffer with a chunk queued, of which
\* a part has been read, and bytes staged behind it.
C34_Witness ==
    /\ status = "run"
    /\ last.op = "peek"
    /\ Len(chunks) = 1
    /\ staging.data # <<>>
    /\ readlog # <<>>
    /\ Len(chunks_vectored(Buf, MaxK)) = 2

\* C35 (drain-loop liveness): with no further writes, a driver that
\* repeats gather with K >= 1 descriptors and advance(n) with
\* 1 <= n <= gathered length reaches an empty buffer after finitely many
\* rounds, never over-advances, and is handed the unread stream in order.
DrainInOrder ==
    /\ DrainStarted => status = "run"
    /\ readlog = NewBytes(0, Len(readlog))
    /\ readlog \o Unread = NewBytes(0, written)

C35_DrainLoop ==
    /\ []DrainInOrder
    /\ DrainStarted ~> (is_empty(Buf) /\ readlog = NewBytes(0, written))

\* The driver has emptied a buffer of MaxBytes bytes, the last of them read
\* from the staging region.
C35_Witness ==
    /\ DrainStarted
    /\ is_empty(Buf)
    /\ written = MaxBytes
    /\ Len(readlog) = MaxBytes
    /\ staging.off >= 1

\* C36 (write_str is all or nothing): write_str(s) on either variant
\* either appends all the bytes of s, in order, and returns Ok
\* (remaining() grows by len(s)), or returns an error with the buffer as
\* it was; it never appends a part of s.
C36_WriteStrAllOrNothing ==
    [][last'.op \in {"write_str", "write_str_err"} =>
         \/ /\ last'.op = "write_str"
            /\ status' = "run"
            /\ written' = written + last'.n
            /\ Flatten(chunks') \o staging'.data = Unread \o NewBytes(written, last'.n)
         \/ /\ last'.op = "write_str_err"
            /\ remaining_mut(Buf) < last'.n
            /\ UNCHANGED <<staging, chunks, cap, written, status>>
    ]_vars

\* C37: backpressure on the caller's side. poll_ready of EncodingWriter
\* returns Ready only into a state where fewer than chunk_size bytes
\* remain; encode_more of TextWriter encodes input only in a state where
\* fewer than chunk_size bytes remain; and while at least chunk_size bytes
\* remain, a step of either loop puts nothing into the buffer, and if it
\* ends the call it ends it with not-ready (or the output's error).
IsPollReadyReturn ==
    last.kind = "EncodingWriter" /\ last.pc = "loop" /\ last.op = "poll_ready"
    /\ last'.pc = "idle"

IsEncodeMoreStep == last.kind = "TextWriter" /\ last.pc = "encode_more"

C37_Backpressure ==
    [][/\ (IsPollReadyReturn /\ last'.ret = "Ready") => remaining(Buf') < chunk_size
       /\ (IsEncodeMoreStep /\ written' # written) => remaining(Buf) < chunk_size
       /\ (IsEncodeMoreStep /\ last'.pc \in {"eof", "try_end"}) => remaining(Buf) < chunk_size
       /\ ((IsEncodeMoreStep \/ (last.pc = "loop" /\ last.op = "poll_ready"))
           /\ remaining(Buf) >= chunk_size)
          => /\ written' = written
             /\ remaining(Buf') <= remaining(Buf)
             /\ last'.pc = "idle" => last'.ret \in {"NotReady", "Pending", "Err"}
             /\ last'.ret \in {"NotReady", "Pending"} => remaining(Buf') = remaining(Buf)]_vars

C37_Witness ==
    /\ last.kind = "EncodingWriter"
    /\ last.op = "poll_ready"
    /\ last.ret = "Ready"
    /\ readlog # <<>>
    /\ has_remaining(Buf)
    /\ remaining(Buf) = chunk_size - 1

\* C38: start_send of TextWriter takes an item only when remaining_str is
\* empty and EOF has not been encoded; with remaining_str non-empty it
\* returns NotReady and leaves the writer and the buffer as they were; with
\* EOF encoded it panics.
IsStartSend ==
    last.kind = "TextWriter" /\ last.pc = "idle" /\ last'.op = "start_send"
    /\ last'.pc = "idle"

C38_ItemAcceptance ==
    [][IsStartSend =>
         /\ last'.ret \in {"Ready", "Err"} => (remaining_str = 0 /\ ~eof_encoded)
         /\ (remaining_str # 0 /\ ~eof_encoded)
            => /\ last'.ret = "NotReady"
               /\ remaining_str' = remaining_str
               /\ eof_encoded' = eof_encoded
               /\ UNCHANGED <<staging, chunks, cap, written, readlog, status>>
         /\ eof_encoded => (status' = "panic" /\ remaining_str' = remaining_str)
         /\ remaining_str' + (written' - written) =
              (IF last'.ret \in {"Ready", "Err"} THEN last'.item ELSE remaining_str)]_vars

C38_Witness ==
    /\ last.kind = "TextWriter"
    /\ last.op = "start_send"
    /\ last.ret = "NotReady"
    /\ last.item >= 1
    /\ remaining_str >= 1
    /\ has_remaining(Buf)

\* C39: poll_complete and close of TextWriter return Ready only with the
\* buffer empty and remaining_str empty; encode_eof is called at most once,
\* by close, in a state where remaining_str is empty; and when close has
\* returned Ready every byte put into the buffer, the ones of encode_eof
\* included, has been written out.
CompletedReady ==
    /\ last.kind = "TextWriter"
    /\ last.op \in {"poll_complete", "close"}
    /\ last.ret = "Ready"

C40_NoUnderflow ==
    [][last'.op = "reserve_staging" =>
         /\ last'.out[2]
         /\ ~last'.out[1] => /\ saturating_add(staging.cap, staging.cap \div 2) <= chunk_size
                             /\ staging.cap <= chunk_size
                             /\ last'.n = chunk_size - staging.cap
         /\ last'.out[1] => /\ saturating_add(staging.cap, staging.cap \div 2) > chunk_size
                            /\ last'.n = chunk_size]_vars

C40_Witness ==
    /\ last.op = "reserve_staging"
    /\ ~last.out[1]
    /\ chunk_size = WordMax
    /\ written + written \div 2 > WordMax
    /\ last.n = chunk_size - written
    /\ last.n >= 1

====
